---- MODULE Spec2Model ----
(***************************************************************************)
(* Model of the place pipeline of the travel planner:                      *)
(*   - app/clustering.py  cluster_places_by_location (deduplication by id  *)
(*     and partition of the places into day groups),                       *)
(*   - app/places.py      PlaceResult.to_dict / from_dict, upsert_place,   *)
(*     link_place_to_plan and execute_search_queries (the places_queries   *)
(*     table used as a cache of provider searches), the paginated provider *)
(*     searches with _parse_place_data, filter_and_sort_places,            *)
(*   - app/main.py        get_plan (ranking of the places, plan per day).  *)
(*                                                                         *)
(* Python values: None is the empty tuple and any other optional value x   *)
(* is the one-element tuple <<x>>; a dict with string keys is a function   *)
(* on a set of strings; an insertion-ordered dict whose keys are computed  *)
(* is a sequence of [key, value] records with distinct keys.  Coordinates  *)
(* are fixed-point integers counted in units of 0.0001 degree.  A table    *)
(* with an autoincrement id is the sequence of its rows, the id being the  *)
(* position; the columns city, country, created_at and updated_at, which   *)
(* no query reads, are left out.                                           *)
(***************************************************************************)
EXTENDS Integers, Sequences, FiniteSets, TLC

None == <<>>
Some(x) == <<x>>

\* Python truthiness of an optional string: neither None nor "".
Truthy(v) == v # None /\ v[1] # ""

\* Python `a or b` on optional strings.
PyOr(a, b) == IF Truthy(a) THEN a ELSE b

\* dict.get(key) and dict.get(key, default) on a dict with string keys.
Get(d, k) == IF k \in DOMAIN d THEN Some(d[k]) ELSE None
GetDefault(d, k, default) == IF k \in DOMAIN d THEN d[k] ELSE default

(***************************************************************************)
(* Insertion-ordered dict (results, unique_places, clustered_results).     *)
(***************************************************************************)
DictHas(d, k) == \E i \in 1..Len(d) : d[i].key = k

DictGet(d, k) == d[CHOOSE i \in 1..Len(d) : d[i].key = k].value

\* d[k] = v : an existing key keeps its position, a new key goes last.
DictSet(d, k, v) ==
    IF DictHas(d, k)
    THEN [i \in 1..Len(d) |-> IF d[i].key = k THEN [key |-> k, value |-> v] ELSE d[i]]
    ELSE Append(d, [key |-> k, value |-> v])

DictValues(d) == [i \in 1..Len(d) |-> d[i].value]

DictKeys(d) == {d[i].key : i \in 1..Len(d)}

(***************************************************************************)
(* Location and PlaceResult (dataclasses of app/places.py).                *)
(***************************************************************************)
Location(lat, lon) == [latitude |-> lat, longitude |-> lon]

PlaceResult(id, name, location, rating, user_rating_count, primary_type, types, address, opening_hours, search_type, photos) ==
    [id |-> id, name |-> name, location |-> location, rating |-> rating,
     user_rating_count |-> user_rating_count, primary_type |-> primary_type,
     types |-> types, address |-> address, opening_hours |-> opening_hours,
     search_type |-> search_type, photos |-> photos]

\* The places the provider can return.  a1 and a2 are two fetches of the
\* same place id with different fields; a1 and c1 share a display name.
a1 == PlaceResult("a", "Cafe", Location(0, 0), Some(4), Some(10), "Cafe",
                  Some(<<"cafe", "food">>), Some("1 Main St"),
                  Some([weekdayDescriptions |-> <<"Mon: 9-17">>]),
                  Some("nearby"), Some(<<"photo_a">>))
a2 == PlaceResult("a", "Cafe Two", Location(0, 1), None, None, "",
                  Some(<<>>), None, None, Some("text"), Some(<<>>))
b1 == PlaceResult("b", "Park", Location(5, 5), Some(5), Some(3), "Park",
                  Some(<<"park">>), None, None, Some("nearby"), Some(<<>>))
c1 == PlaceResult("c", "Cafe", Location(5, 6), Some(3), None, "Cafe",
                  Some(<<"cafe">>), Some("2 Side St"), None,
                  Some("text"), Some(<<"photo_c">>))
d1 == PlaceResult("d", "Museum", Location(0, 0), Some(2), Some(1), "Museum",
                  Some(<<"museum">>), None, None, Some("nearby"), Some(<<>>))

SamplePlaces == {a1, a2, b1, c1, d1}

(***************************************************************************)
(* Bounds of the clustering inputs.                                        *)
(***************************************************************************)
MaxLists == 2      \* query result lists in the mapping given to clustering
MaxPlaces == 3     \* places in all the lists of the mapping together
MaxDays == 3       \* number_of_days

RECURSIVE SeqsUpTo(_, _)
SeqsUpTo(S, n) ==
    IF n = 0 THEN {<<>>}
    ELSE LET shorter == SeqsUpTo(S, n - 1)
         IN  shorter \cup {Append(s, x) : s \in {t \in shorter : Len(t) = n - 1}, x \in S}

RECURSIVE SumSeq(_)
SumSeq(ns) == IF ns = <<>> THEN 0 ELSE Head(ns) + SumSeq(Tail(ns))

\* The lengths of at most MaxLists lists holding `total` places together.
ListLengths(total) ==
    UNION {{lens \in [1..m -> 0..total] : SumSeq(lens) = total} : m \in 0..MaxLists}

\* The mapping query key -> list of places that cuts `flat` into lists of the
\* given lengths; the keys are the positions.
SplitLists(flat, lens) ==
    [i \in 1..Len(lens) |->
        [key |-> i,
         value |-> SubSeq(flat, SumSeq(SubSeq(lens, 1, i - 1)) + 1,
                                SumSeq(SubSeq(lens, 1, i)))]]

VARIABLES
    cl_results,        \* argument `results` of cluster_places_by_location
    number_of_days,    \* argument `number_of_days`
    cl_pc,             \* "input" before the call, "done" after it returned
    places_list,       \* local places_list (the deduplicated places)
    clustered_results, \* the returned mapping cluster key -> list of places
    kmeans_ran         \* TRUE iff KMeans.fit_predict was called

cl_vars == <<cl_results, number_of_days, cl_pc, places_list, clustered_results, kmeans_ran>>

(***************************************************************************)
(* cluster_places_by_location                                              *)
(***************************************************************************)
\* Step 1: all_places, the lists of the mapping concatenated in dict order.
RECURSIVE all_places(_)
all_places(results) ==
    IF results = <<>> THEN <<>>
    ELSE results[1].value \o all_places(Tail(results))

\* A deduplication key taken from the display name.
place_name_of(place) == place.name

\* place.id (objects) or place['id'] (dicts)
place_id_of(place) == place.id

\* Step 2: unique_places, keyed by place id in order of first insertion.
RECURSIVE unique_places_from(_, _)
unique_places_from(unique, places) ==
    IF places = <<>> THEN unique
    ELSE LET place == Head(places)
             place_id == place_id_of(place)
         IN  unique_places_from(
                 IF ~DictHas(unique, place_id)
                 THEN DictSet(unique, place_id, place)
                 ELSE unique,
                 Tail(places))

unique_places(places) == unique_places_from(<<>>, places)

\* A deduplication that returns the kept records in reverse order.
dedup_places_list_reversed(results) ==
    LET kept == DictValues(unique_places(all_places(results)))
    IN  [i \in 1..Len(kept) |-> kept[Len(kept) + 1 - i]]

\* Steps 1 and 2 together: list(unique_places.values()).
dedup_places_list(results) == DictValues(unique_places(all_places(results)))

cluster_key(i) == <<"cluster_", i>>

\* The label arrays KMeans(n_clusters = k).fit_predict can return for n
\* samples: one label of 0..k-1 per sample.
KMeansLabels(n, k) == [1..n -> 0..(k - 1)]

\* An edge-case test that sends len(places_list) == number_of_days to k-means.
is_trivial_strict(n, days) == n < days

\* len(places_list) <= number_of_days (the test of the edge case of step 4).
is_trivial(n, days) == n <= days

\* Step 4 (edge cases): one singleton cluster per place.
trivial_clusters(places) ==
    [i \in 1..Len(places) |-> [key |-> cluster_key(i - 1), value |-> <<places[i]>>]]

\* Step 6, first loop: an empty list for every label of range(number_of_days).
empty_clusters(k) == [c \in 1..k |-> [key |-> cluster_key(c - 1), value |-> <<>>]]

\* Step 6, second loop: each place is appended to the list of its label.
RECURSIVE append_by_label(_, _, _)
append_by_label(clustered, places, cluster_labels) ==
    IF places = <<>> THEN clustered
    ELSE LET key == cluster_key(Head(cluster_labels))
         IN  append_by_label(
                 DictSet(clustered, key, Append(DictGet(clustered, key), Head(places))),
                 Tail(places), Tail(cluster_labels))

\* A grouping that creates a cluster only when a place is put in it.
RECURSIVE append_by_label_lazy(_, _, _)
append_by_label_lazy(clustered, places, cluster_labels) ==
    IF places = <<>> THEN clustered
    ELSE LET key == cluster_key(Head(cluster_labels))
             old == IF DictHas(clustered, key) THEN DictGet(clustered, key) ELSE <<>>
         IN  append_by_label_lazy(
                 DictSet(clustered, key, Append(old, Head(places))),
                 Tail(places), Tail(cluster_labels))

organize_by_cluster_lazy(places, cluster_labels, k) ==
    append_by_label_lazy(<<>>, places, cluster_labels)

\* A grouping that assigns the place instead of appending it.
RECURSIVE assign_by_label(_, _, _)
assign_by_label(clustered, places, cluster_labels) ==
    IF places = <<>> THEN clustered
    ELSE assign_by_label(
             DictSet(clustered, cluster_key(Head(cluster_labels)), <<Head(places)>>),
             Tail(places), Tail(cluster_labels))

organize_by_cluster_assign(places, cluster_labels, k) ==
    assign_by_label(empty_clusters(k), places, cluster_labels)

\* Step 6: the clustered_results returned after k-means.
organize_by_cluster(places, cluster_labels, k) ==
    append_by_label(empty_clusters(k), places, cluster_labels)

InitCluster ==
    /\ \E flat \in SeqsUpTo(SamplePlaces, MaxPlaces) :
          \E lens \in ListLengths(Len(flat)) : cl_results = SplitLists(flat, lens)
    /\ number_of_days \in 1..MaxDays
    /\ cl_pc = "input"
    /\ places_list = <<>>
    /\ clustered_results = <<>>
    /\ kmeans_ran = FALSE

\* len(places_list) == 0: return {}
ClusterEmpty ==
    /\ cl_pc = "input"
    /\ LET places == dedup_places_list(cl_results)
       IN  /\ Len(places) = 0
           /\ places_list' = places
           /\ clustered_results' = <<>>
           /\ kmeans_ran' = FALSE
    /\ cl_pc' = "done"
    /\ UNCHANGED <<cl_results, number_of_days>>

\* 0 < len(places_list) <= number_of_days: singleton clusters
ClusterTrivial ==
    /\ cl_pc = "input"
    /\ LET places == dedup_places_list(cl_results)
       IN  /\ Len(places) # 0
           /\ Len(places) <= number_of_days
           /\ places_list' = places
           /\ clustered_results' = trivial_clusters(places)
           /\ kmeans_ran' = FALSE
    /\ cl_pc' = "done"
    /\ UNCHANGED <<cl_results, number_of_days>>

\* len(places_list) > number_of_days: k-means, then grouping by label
ClusterKMeans ==
    /\ cl_pc = "input"
    /\ LET places == dedup_places_list(cl_results)
       IN  /\ Len(places) # 0
           /\ ~is_trivial(Len(places), number_of_days)
           /\ \E cluster_labels \in KMeansLabels(Len(places), number_of_days) :
                 clustered_results' =
                     organize_by_cluster(places, cluster_labels, number_of_days)
           /\ places_list' = places
           /\ kmeans_ran' = TRUE
    /\ cl_pc' = "done"
    /\ UNCHANGED <<cl_results, number_of_days>>


(***************************************************************************)
(* PlaceResult.to_dict / PlaceResult.from_dict                             *)
(***************************************************************************)
to_dict(self) ==
    [id |-> self.id,
     name |-> self.name,
     location |-> [latitude |-> self.location.latitude,
                   longitude |-> self.location.longitude],
     rating |-> self.rating,
     user_rating_count |-> self.user_rating_count,
     primary_type |-> self.primary_type,
     types |-> self.types,
     address |-> self.address,
     opening_hours |-> self.opening_hours,
     search_type |-> self.search_type,
     photos |-> self.photos]

\* A from_dict that does not read the photos of the dictionary.
from_dict_no_photos(data) ==
    LET location_data == GetDefault(data, "location", <<>>)
    IN  PlaceResult(GetDefault(data, "id", ""),
                    GetDefault(data, "name", ""),
                    Location(GetDefault(location_data, "latitude", 0),
                             GetDefault(location_data, "longitude", 0)),
                    GetDefault(data, "rating", None),
                    GetDefault(data, "user_rating_count", None),
                    GetDefault(data, "primary_type", ""),
                    GetDefault(data, "types", None),
                    GetDefault(data, "address", None),
                    GetDefault(data, "opening_hours", None),
                    GetDefault(data, "search_type", None),
                    Some(<<>>))

from_dict(data) ==
    LET location_data == GetDefault(data, "location", <<>>)
    IN  PlaceResult(GetDefault(data, "id", ""),
                    GetDefault(data, "name", ""),
                    Location(GetDefault(location_data, "latitude", 0),
                             GetDefault(location_data, "longitude", 0)),
                    GetDefault(data, "rating", None),
                    GetDefault(data, "user_rating_count", None),
                    GetDefault(data, "primary_type", ""),
                    GetDefault(data, "types", None),
                    GetDefault(data, "address", None),
                    GetDefault(data, "opening_hours", None),
                    GetDefault(data, "search_type", None),
                    GetDefault(data, "photos", Some(<<>>)))

(***************************************************************************)
(* Inputs of execute_search_queries.                                       *)
(***************************************************************************)
MaxSteps == 3      \* loop iterations over all calls, and number of calls

\* tolerance = 0.0001, in coordinate units
tolerance == 1

\* Centers: (1,0) is within the tolerance of (0,0) and of (2,0), which are
\* not within the tolerance of each other (latitude); (0,0) and (0,2) differ
\* in longitude only.
Locations == {Location(0, 0), Location(1, 0), Location(2, 0), Location(0, 2)}

\* (location, radius_km) of a call: every center with radius 5, and one
\* center with radius 3 as well.
CallContexts ==
    {<<location, 5>> : location \in Locations} \cup {<<Location(0, 0), 3>>}

\* Query dicts as produced by get_llm_queries.
Queries ==
    { [type |-> "nearby", category |-> "park"],
      [type |-> "nearby", category |-> "Park"],
      [type |-> "text", query |-> "park"],
      [type |-> "text", category |-> "park", query |-> "food"],
      [type |-> "nearby", query |-> "park"] }

\* What a provider search can return (already parsed, at most max_results).
ProviderLists == { <<>>, <<a1, b1>>, <<b1, a2>> }

VARIABLES
    places_queries,  \* table places_queries (PlacesQuery rows, id = position)
    plan_queries,    \* table plan_queries (PlanQuery rows)
    places,          \* table places (Place rows), keyed by place_id
    plan_places,     \* table plan_places (PlanPlace rows)
    provider_calls,  \* number of searches sent to the places provider
    call,            \* the running call of execute_search_queries
    results,         \* local `results` of the running call
    last,            \* outcome of the last loop iteration
    searched_lists,  \* per PlacesQuery row: the list `places` it was built from
    steps            \* loop iterations executed so far, over all calls

db_vars == <<places_queries, plan_queries, places, plan_places, provider_calls,
             call, results, last, searched_lists, steps>>

VARIABLES
    gp_pc,                \* position of the running /plan request in get_plan
    gp_req,               \* its parameters number_of_days, radius_km, rating
    gp_queries,           \* local `queries` of get_plan
    gp_results,           \* local `results` of get_plan (the mapping that is ranked)
    processed_data,       \* local processed_data: group key -> places kept
    unique_places_count,  \* local `count`, returned as unique_places_count
    travel_plan,          \* local travel_plan: day key -> plan of the day
    gp_response           \* what the client of /plan receives

gp_vars == <<gp_pc, gp_req, gp_queries, gp_results, processed_data,
             unique_places_count, travel_plan, gp_response>>

VARIABLES
    sr_pc,             \* position of the running provider search
    sr_type,           \* "nearby" (search_places_nearby) or "text" (search_places_by_text)
    max_results,       \* argument max_results of the search
    sr_all_places,     \* local all_places of the search
    next_page_token,   \* local next_page_token
    requests_made,     \* local requests_made
    sr_page,           \* local `places`: the raw entries of the last page received
    sr_failed,         \* TRUE iff a request failed (exception or non-200)
    sr_returned,       \* the list returned to the caller
    requests_sent,     \* number of _make_request calls of the search so far
    max_result_count   \* maxResultCount / pageSize of the last payload sent

sr_vars == <<sr_pc, sr_type, max_results, sr_all_places, next_page_token, requests_made,
             sr_page, sr_failed, sr_returned, requests_sent, max_result_count>>

VARIABLES
    upsert_log,        \* the records given to upsert_place so far, in call order
    sessions           \* per concurrent request: its position and locals

VARIABLES
    travel_plans,      \* table travel_plans: row i is the plan with id i
    lk_pc,             \* position of the running GET /plan/{plan_id}
    lk_plan,           \* its argument plan_id
    lk_original,       \* id of the plan it reports as original_plan
    lk_stack,          \* plans get_all_updates has selected and not yet visited
    update_plans,      \* its list update_plans, as plan ids
    link_calls         \* number of link_place_to_plan calls made so far

up_vars == <<travel_plans, lk_pc, lk_plan, lk_original, lk_stack, update_plans, link_calls>>

VARIABLES
    seeded_fit,        \* the runs of KMeans(random_state = 42) made so far:
                       \* samples, n_clusters and the labels it gave them
    tw_calls           \* two calls of cluster_places_by_location on cl_results

tw_vars == <<seeded_fit, tw_calls>>

VARIABLES
    rs_pc,             \* position of the running resolve
    rs_name,           \* argument name of resolve, as a list of words
    rs_candidates,     \* argument candidates of resolve
    rs_match           \* the EnrichmentMatch returned, or None

rs_vars == <<rs_pc, rs_name, rs_candidates, rs_match>>

aux_vars == <<up_vars, tw_vars, rs_vars>>

ext_vars == <<gp_vars, sr_vars, upsert_log, sessions, aux_vars>>

vars == <<cl_results, number_of_days, cl_pc, places_list, clustered_results, kmeans_ran,
          places_queries, plan_queries, places, plan_places, provider_calls,
          call, results, last, searched_lists, steps,
          gp_pc, gp_req, gp_queries, gp_results, processed_data,
          unique_places_count, travel_plan, gp_response,
          sr_pc, sr_type, max_results, sr_all_places, next_page_token, requests_made,
          sr_page, sr_failed, sr_returned, requests_sent, max_result_count,
          upsert_log, sessions,
          travel_plans, lk_pc, lk_plan, lk_original, lk_stack, update_plans, link_calls,
          seeded_fit, tw_calls, rs_pc, rs_name, rs_candidates, rs_match>>

(***************************************************************************)
(* upsert_place, link_place_to_plan                                        *)
(***************************************************************************)
\* The Place row written for a PlaceResult (columns set by both branches).
place_row(place_result) ==
    [place_id |-> place_result.id,
     name |-> place_result.name,
     latitude |-> place_result.location.latitude,
     longitude |-> place_result.location.longitude,
     rating |-> place_result.rating,
     user_rating_count |-> place_result.user_rating_count,
     primary_type |-> place_result.primary_type,
     types |-> place_result.types,
     address |-> place_result.address,
     opening_hours |-> place_result.opening_hours,
     photos |-> place_result.photos,
     search_type |-> place_result.search_type]

\* An upsert that leaves the row of a known id as it is.
upsert_place_insert_only(table, place_result) ==
    IF \E row \in table : row.place_id = place_result.id
    THEN table
    ELSE table \cup {place_row(place_result)}

\* The table after upsert_place: the row of the id is updated or created.
upsert_place(table, place_result) ==
    IF \E row \in table : row.place_id = place_result.id
    THEN {IF row.place_id = place_result.id THEN place_row(place_result) ELSE row : row \in table}
    ELSE table \cup {place_row(place_result)}

\* The link is added without looking for an existing one.
link_place_to_plan_unchecked(table, plan_id, place_id) ==
    Append(table, [plan_id |-> plan_id, place_id |-> place_id])

\* A link that is skipped when the place is linked to any plan.
link_place_to_plan_any_plan(table, plan_id, place_id) ==
    IF \E i \in 1..Len(table) : table[i].place_id = place_id
    THEN table
    ELSE Append(table, [plan_id |-> plan_id, place_id |-> place_id])

\* The table after link_place_to_plan: a row is added unless one exists.
link_place_to_plan(table, plan_id, place_id) ==
    IF \E i \in 1..Len(table) : table[i].plan_id = plan_id /\ table[i].place_id = place_id
    THEN table
    ELSE Append(table, [plan_id |-> plan_id, place_id |-> place_id])

RECURSIVE upsert_all(_, _)
upsert_all(table, place_results) ==
    IF place_results = <<>> THEN table
    ELSE upsert_all(upsert_place(table, Head(place_results)), Tail(place_results))

RECURSIVE link_all(_, _, _)
link_all(table, plan_id, place_results) ==
    IF place_results = <<>> THEN table
    ELSE link_all(link_place_to_plan(table, plan_id, Head(place_results).id),
                  plan_id, Tail(place_results))

(***************************************************************************)
(* execute_search_queries                                                  *)
(***************************************************************************)
query_key_of(query_type, query_value) == <<query_type, " search: ", query_value>>

\* A column compared with a Python value in a where clause: comparing with
\* None selects no row.  Strings are compared as the == of the where clause
\* reads, character for character (a binary collation of the column).
SqlEq(column, value) == value # None /\ column = value[1]

\* A where clause whose bounds exclude the tolerance itself.
db_query_matches_strict(row, location, radius_km, query_type, query_value) ==
    /\ row.lat > location.latitude - tolerance
    /\ row.lat < location.latitude + tolerance
    /\ row.long > location.longitude - tolerance
    /\ row.long < location.longitude + tolerance
    /\ row.radius_km = radius_km
    /\ SqlEq(row.query_type, query_type)
    /\ SqlEq(row.query, query_value)

\* A where clause that compares the center for equality.
db_query_matches_exact(row, location, radius_km, query_type, query_value) ==
    /\ row.lat = location.latitude
    /\ row.long = location.longitude
    /\ row.radius_km = radius_km
    /\ SqlEq(row.query_type, query_type)
    /\ SqlEq(row.query, query_value)

\* The where clause of db_query without the upper bound on long.
db_query_matches_no_long_bound(row, location, radius_km, query_type, query_value) ==
    /\ row.lat >= location.latitude - tolerance
    /\ row.lat <= location.latitude + tolerance
    /\ row.long >= location.longitude - tolerance
    /\ row.radius_km = radius_km
    /\ SqlEq(row.query_type, query_type)
    /\ SqlEq(row.query, query_value)

\* The where clause of db_query.
db_query_matches(row, location, radius_km, query_type, query_value) ==
    /\ row.lat >= location.latitude - tolerance
    /\ row.lat <= location.latitude + tolerance
    /\ row.long >= location.longitude - tolerance
    /\ row.long <= location.longitude + tolerance
    /\ row.radius_km = radius_km
    /\ SqlEq(row.query_type, query_type)
    /\ SqlEq(row.query, query_value)

\* The rows session.exec(db_query) selects; .first() is one of them.
db_query_rows(table, location, radius_km, query_type, query_value) ==
    {i \in 1..Len(table) :
        db_query_matches(table[i], location, radius_km, query_type, query_value)}

\* cached_places: the stored dictionaries converted back to PlaceResult.
cached_places_of(place_query) ==
    IF place_query.places # <<>>
    THEN [j \in 1..Len(place_query.places) |-> from_dict(place_query.places[j])]
    ELSE <<>>

\* _parse_place_data stamps the kind of the search on each place.
parsed(provider_list, search_type) ==
    [j \in 1..Len(provider_list) |->
        [provider_list[j] EXCEPT !.search_type = Some(search_type)]]

\* Whether the miss branch sends a search to the provider.
sends_search(query) ==
    \/ Get(query, "type") = Some("nearby") /\ Truthy(Get(query, "category"))
    \/ Get(query, "type") = Some("text") /\ Truthy(Get(query, "query"))

\* The string the miss branch hands to the provider: place_types = [category]
\* for a nearby search, text_query = query.get("query") for a text search,
\* nothing when no search is sent.
sent_to_provider(query) ==
    IF Get(query, "type") = Some("nearby") /\ Truthy(Get(query, "category"))
    THEN Get(query, "category")
    ELSE IF Get(query, "type") = Some("text") /\ Truthy(Get(query, "query"))
         THEN Get(query, "query")
         ELSE None

\* if places: the results of a miss are written to the tables.
stores_miss(found) == found # <<>>

\* A PlacesQuery row that keeps the radius in metres, as sent to the provider.
new_places_query_metres(location, radius_km, query_type, query_value, found) ==
    [lat |-> location.latitude,
     long |-> location.longitude,
     radius_km |-> radius_km * 1000,
     query_type |-> IF Truthy(query_type) THEN query_type[1] ELSE "",
     query |-> IF Truthy(query_value) THEN query_value[1] ELSE "",
     places |-> [j \in 1..Len(found) |-> to_dict(found[j])]]

\* The PlacesQuery row of a miss; query_type or "", query_value or "".
new_places_query(location, radius_km, query_type, query_value, found) ==
    [lat |-> location.latitude,
     long |-> location.longitude,
     radius_km |-> radius_km,
     query_type |-> IF Truthy(query_type) THEN query_type[1] ELSE "",
     query |-> IF Truthy(query_value) THEN query_value[1] ELSE "",
     places |-> [j \in 1..Len(found) |-> to_dict(found[j])]]

NoCall == [active |-> FALSE, plan_id |-> 0, location |-> Location(0, 0),
           radius_km |-> 0]

\* gp_response before get_plan has answered.
NoResponse == [kind |-> "none", status_code |-> 0, travel_plan |-> <<>>,
               unique_places_count |-> 0, processed_data |-> <<>>]

NoLast == [status |-> "none", plan_id |-> 0, location |-> Location(0, 0),
           radius_km |-> 0, query |-> <<>>, rows_before |-> 0, hit |-> 0,
           searched |-> FALSE, sent |-> <<>>, found |-> <<>>, returned |-> <<>>]

InitDb ==
    /\ places_queries = <<>>
    /\ plan_queries = <<>>
    /\ places = {}
    /\ plan_places = <<>>
    /\ provider_calls = 0
    /\ call = NoCall
    /\ results = <<>>
    /\ last = NoLast
    /\ searched_lists = <<>>
    /\ steps = 0

InitClusterIdle ==
    /\ cl_results = <<>>
    /\ number_of_days = 1
    /\ cl_pc = "input"
    /\ places_list = <<>>
    /\ clustered_results = <<>>
    /\ kmeans_ran = FALSE

\* execute_search_queries is entered for a new plan: results = {}.
BeginCall ==
    /\ ~call.active
    /\ call.plan_id < MaxSteps
    /\ steps < MaxSteps
    /\ \E context \in CallContexts :
          call' = [active |-> TRUE, plan_id |-> call.plan_id + 1,
                   location |-> context[1], radius_km |-> context[2]]
    /\ results' = <<>>
    /\ UNCHANGED <<places_queries, plan_queries, places, plan_places,
                   provider_calls, last, searched_lists, steps>>

\* One iteration of the loop, db_query finds a row: the cached branch.
QueryHit ==
    /\ call.active
    /\ steps < MaxSteps
    /\ \E query \in Queries :
         LET query_type == Get(query, "type")
             query_value == PyOr(Get(query, "category"), Get(query, "query"))
             query_key == query_key_of(query_type, query_value)
             rows == db_query_rows(places_queries, call.location, call.radius_km,
                                   query_type, query_value)
         IN  \E first \in rows :
               LET place_query == places_queries[first]
                   cached_places == cached_places_of(place_query)
               IN  /\ results' = DictSet(results, query_key, cached_places)
                   /\ places' = upsert_all(places, cached_places)
                   /\ plan_places' = link_all(plan_places, call.plan_id, cached_places)
                   /\ plan_queries' = Append(plan_queries,
                                             [plan_id |-> call.plan_id, query_id |-> first])
                   /\ last' = [status |-> "hit", plan_id |-> call.plan_id,
                               location |-> call.location, radius_km |-> call.radius_km,
                               query |-> query, rows_before |-> Len(places_queries),
                               hit |-> first, searched |-> FALSE, sent |-> None,
                               found |-> <<>>,
                               returned |-> cached_places]
    /\ steps' = steps + 1
    /\ UNCHANGED <<places_queries, provider_calls, searched_lists, call>>

\* One iteration of the loop, db_query finds no row: the search branch.
QueryMiss ==
    /\ call.active
    /\ steps < MaxSteps
    /\ \E query \in Queries :
         LET query_type == Get(query, "type")
             query_value == PyOr(Get(query, "category"), Get(query, "query"))
             query_key == query_key_of(query_type, query_value)
             rows == db_query_rows(places_queries, call.location, call.radius_km,
                                   query_type, query_value)
             searched == sends_search(query)
         IN  /\ rows = {}
             /\ \E provider_list \in (IF searched THEN ProviderLists ELSE {<<>>}) :
                  LET found == parsed(provider_list, query_type[1])
                  IN  /\ provider_calls' = provider_calls + (IF searched THEN 1 ELSE 0)
                      /\ results' = DictSet(results, query_key, found)
                      /\ IF stores_miss(found)
                         THEN /\ places' = upsert_all(places, found)
                              /\ plan_places' = link_all(plan_places, call.plan_id, found)
                              /\ places_queries' =
                                    Append(places_queries,
                                           new_places_query(call.location, call.radius_km,
                                                            query_type, query_value, found))
                              /\ searched_lists' = Append(searched_lists, found)
                              /\ plan_queries' =
                                    Append(plan_queries,
                                           [plan_id |-> call.plan_id,
                                            query_id |-> Len(places_queries) + 1])
                         ELSE UNCHANGED <<places, plan_places, places_queries,
                                          searched_lists, plan_queries>>
                      /\ last' = [status |-> "miss", plan_id |-> call.plan_id,
                                  location |-> call.location, radius_km |-> call.radius_km,
                                  query |-> query, rows_before |-> Len(places_queries),
                                  hit |-> 0, searched |-> searched,
                                  sent |-> sent_to_provider(query), found |-> found,
                                  returned |-> found]
    /\ steps' = steps + 1
    /\ UNCHANGED call

\* The loop is over: return results.
ReturnCall ==
    /\ call.active
    /\ call' = [call EXCEPT !.active = FALSE]
    /\ UNCHANGED <<places_queries, plan_queries, places, plan_places,
                   provider_calls, results, last, searched_lists, steps>>

\* No /plan request is running.
InitPlanIdle ==
    /\ gp_pc = "idle"
    /\ gp_req = [number_of_days |-> 1, radius_km |-> 2, rating |-> 0]
    /\ gp_queries = <<>>
    /\ gp_results = <<>>
    /\ processed_data = <<>>
    /\ unique_places_count = 0
    /\ travel_plan = <<>>
    /\ gp_response = NoResponse

\* No plan is stored and no plan lookup is running; no repeated call of
\* cluster_places_by_location is followed; no entity resolution is running.
InitAuxIdle ==
    /\ travel_plans = <<>>
    /\ lk_pc = "idle"
    /\ lk_plan = 0
    /\ lk_original = 0
    /\ lk_stack = <<>>
    /\ update_plans = <<>>
    /\ link_calls = 0
    /\ seeded_fit = <<>>
    /\ tw_calls = <<>>
    /\ rs_pc = "idle"
    /\ rs_name = <<>>
    /\ rs_candidates = <<>>
    /\ rs_match = None

\* No provider search is running.
InitSearchIdle ==
    /\ sr_pc = "idle"
    /\ sr_type = "nearby"
    /\ max_results = 0
    /\ sr_all_places = <<>>
    /\ next_page_token = None
    /\ requests_made = 0
    /\ sr_page = <<>>
    /\ sr_failed = FALSE
    /\ sr_returned = <<>>
    /\ requests_sent = 0
    /\ max_result_count = 0

\* No direct upsert_place call and no concurrent request.
InitExtIdle ==
    /\ InitPlanIdle
    /\ InitSearchIdle
    /\ InitAuxIdle
    /\ upsert_log = <<>>
    /\ sessions = <<>>

Init == InitDb /\ InitClusterIdle /\ InitExtIdle

Next ==
    \/ BeginCall /\ UNCHANGED <<cl_vars, ext_vars>>
    \/ QueryHit /\ UNCHANGED <<cl_vars, ext_vars>>
    \/ QueryMiss /\ UNCHANGED <<cl_vars, ext_vars>>
    \/ ReturnCall /\ UNCHANGED <<cl_vars, ext_vars>>

Spec == Init /\ [][Next]_vars

\* A call of cluster_places_by_location on an arbitrary mapping; no search runs.
InitClusterCall == InitCluster /\ InitDb /\ InitExtIdle

NextCluster ==
    \/ ClusterEmpty /\ UNCHANGED <<db_vars, ext_vars>>
    \/ ClusterTrivial /\ UNCHANGED <<db_vars, ext_vars>>
    \/ ClusterKMeans /\ UNCHANGED <<db_vars, ext_vars>>

\* cluster_places_by_location applied to every bounded input.
SpecCluster == InitClusterCall /\ [][NextCluster]_vars

(***************************************************************************)
(* Properties of cluster_places_by_location (checked under SpecCluster).   *)
(***************************************************************************)
InputIds == {all_places(cl_results)[i].id : i \in 1..Len(all_places(cl_results))}

\* Number of positions of the sequence whose record has the given id.
CountId(places_seq, id) == Cardinality({i \in 1..Len(places_seq) : places_seq[i].id = id})

\* All places of the returned mapping, group after group.
GroupedPlaces == all_places(clustered_results)

\* The last record of the input with the given id.
LastOccurrence(id) ==
    LET input == all_places(cl_results)
        pos == CHOOSE i \in 1..Len(input) :
                   /\ input[i].id = id
                   /\ \A j \in (i + 1)..Len(input) : input[j].id # id
    IN  input[pos]

\* The first record of the input with the given id.
FirstOccurrence(id) ==
    LET input == all_places(cl_results)
        pos == CHOOSE i \in 1..Len(input) :
                   /\ input[i].id = id
                   /\ \A j \in 1..(i - 1) : input[j].id # id
    IN  input[pos]

\* C1: the deduplicated place list holds exactly one record for each distinct
\* id of the input mapping, and no record whose id is absent from the input.
C1_DedupOnePerId ==
    cl_pc = "done" =>
        /\ \A id \in InputIds : CountId(places_list, id) = 1
        /\ \A i \in 1..Len(places_list) : places_list[i].id \in InputIds

\* C1 witness: an input with a repeated id and several distinct ids was
\* deduplicated.
C1_Witness ==
    /\ cl_pc = "done"
    /\ Len(all_places(cl_results)) > Len(places_list)
    /\ Len(places_list) >= 2

\* C2: for an id present several times with different fields, the record kept
\* by the deduplication is the last occurrence of the id, with all its fields.
C2_LastOccurrenceKept ==
    cl_pc = "done" =>
        \A i \in 1..Len(places_list) : places_list[i] = LastOccurrence(places_list[i].id)

\* C3: when more places than days remain after deduplication, the groups
\* hold every deduplicated place exactly once: as multisets of ids, the
\* groups together equal the deduplicated list.
C3_PartitionCovers ==
    (cl_pc = "done" /\ Len(places_list) > number_of_days) =>
        /\ Len(GroupedPlaces) = Len(places_list)
        /\ \A i \in 1..Len(places_list) :
              /\ CountId(GroupedPlaces, places_list[i].id) = 1
              /\ \E j \in 1..Len(GroupedPlaces) : GroupedPlaces[j] = places_list[i]

\* C3 witness: k-means ran and put places in two different groups, one of
\* them holding several places.
C3_Witness ==
    /\ cl_pc = "done"
    /\ kmeans_ran
    /\ \E g, h \in 1..Len(clustered_results) :
          /\ g # h
          /\ Len(clustered_results[g].value) >= 2
          /\ Len(clustered_results[h].value) >= 1

\* C4: when more places than days remain after deduplication, the result has
\* exactly number_of_days groups, keyed cluster_0 .. cluster_{number_of_days-1};
\* a label without places is present with an empty list.
C4_GroupCount ==
    (cl_pc = "done" /\ Len(places_list) > number_of_days) =>
        /\ Len(clustered_results) = number_of_days
        /\ DictKeys(clustered_results) = {cluster_key(i) : i \in 0..(number_of_days - 1)}
        /\ \A i \in 0..(number_of_days - 1) :
              Cardinality({c \in 1..Len(clustered_results) :
                              clustered_results[c].key = cluster_key(i)}) = 1

\* C4 witness: k-means ran for at least two days and one label got no place.
C4_Witness ==
    /\ cl_pc = "done"
    /\ kmeans_ran
    /\ number_of_days >= 2
    /\ \E c \in 1..Len(clustered_results) : clustered_results[c].value = <<>>

\* C5: when at most number_of_days places remain after deduplication, the
\* result has one group per place, each group holds exactly one place and each
\* place is in exactly one group; with no place the result is the empty
\* mapping; k-means is not run.
C5_TrivialPartition ==
    (cl_pc = "done" /\ Len(places_list) <= number_of_days) =>
        /\ ~kmeans_ran
        /\ Len(clustered_results) = Len(places_list)
        /\ \A c \in 1..Len(clustered_results) : Len(clustered_results[c].value) = 1
        /\ \A i \in 1..Len(places_list) :
              Cardinality({c \in 1..Len(clustered_results) :
                              clustered_results[c].value = <<places_list[i]>>}) = 1
        /\ (Len(places_list) = 0 => clustered_results = <<>>)

\* C5 witness: fewer places than days, hence fewer groups than days.
C5_Witness ==
    /\ cl_pc = "done"
    /\ Len(places_list) >= 1
    /\ Len(places_list) < number_of_days
    /\ Len(clustered_results) < number_of_days

(***************************************************************************)
(* Properties of the cache of execute_search_queries (checked under Spec). *)
(***************************************************************************)
\* The tolerance of the cache, 0.0001 degree, in coordinate units.
Epsilon == 1

AbsDiff(x, y) == IF x >= y THEN x - y ELSE y - x

RequestType(query) == Get(query, "type")

RequestValue(query) == PyOr(Get(query, "category"), Get(query, "query"))

WithinTolerance(row, location) ==
    /\ AbsDiff(row.lat, location.latitude) <= Epsilon
    /\ AbsDiff(row.long, location.longitude) <= Epsilon

\* The row is an entry for the requested radius, kind and descriptor.
SameSearch(row, radius_km, query) ==
    /\ row.radius_km = radius_km
    /\ Some(row.query_type) = RequestType(query)
    /\ Some(row.query) = RequestValue(query)

\* The entries that were stored before the last iteration and answer its
\* request: same radius, kind and descriptor, center within the tolerance.
EntriesForLast ==
    {i \in 1..last.rows_before :
        /\ WithinTolerance(places_queries[i], last.location)
        /\ SameSearch(places_queries[i], last.radius_km, last.query)}

\* C6 as stated: a query whose center is within the tolerance of the center
\* of a stored entry with the same radius, kind and descriptor is served the
\* list stored for that entry.
C6_ServedThatEntry ==
    \A i \in EntriesForLast :
        last.status = "hit" /\ last.returned = searched_lists[i]

\* C6 amended: such a query is a hit, and it is served the list stored for
\* one of the entries with the same radius, kind and descriptor whose center
\* is within the tolerance of its center (boundaries included).
C6_ServedAnEntryInTolerance ==
    EntriesForLast # {} =>
        /\ last.status = "hit"
        /\ \E i \in EntriesForLast : last.returned = searched_lists[i]

\* C6 witness: a hit on an entry whose center is at the tolerance from the
\* requested center, stored by an earlier call.
C6_Witness ==
    /\ last.status = "hit"
    /\ places_queries[last.hit].lat # last.location.latitude
    /\ AbsDiff(places_queries[last.hit].lat, last.location.latitude) = Epsilon
    /\ last.returned = searched_lists[last.hit]

HitStep ==
    /\ Len(plan_queries') = Len(plan_queries) + 1
    /\ Len(places_queries') = Len(places_queries)

\* C8: on a cache hit no search is sent to the provider, and the list
\* returned for the query equals the list the entry was stored from: same
\* records, same field values, same order.
C8_HitReturnsStoredList ==
    [][HitStep =>
        /\ provider_calls' = provider_calls
        /\ last'.status = "hit"
        /\ last'.returned = searched_lists[last'.hit]
        /\ DictGet(results', query_key_of(RequestType(last'.query), RequestValue(last'.query)))
              = searched_lists[last'.hit]]_vars

\* C8 witness: a hit returned two places, one with a photo and opening hours
\* and one without.
C8_Witness ==
    /\ last.status = "hit"
    /\ Len(last.returned) = 2
    /\ \E j \in 1..2 : last.returned[j].photos # Some(<<>>) /\ last.returned[j].opening_hours # None
    /\ \E j \in 1..2 : last.returned[j].photos = Some(<<>>)

\* An entry stored exactly under the request of the last iteration.
StoredForLast(i) ==
    /\ places_queries[i].lat = last.location.latitude
    /\ places_queries[i].long = last.location.longitude
    /\ SameSearch(places_queries[i], last.radius_km, last.query)

\* C9 as stated: after a miss whose search was sent to the provider, the
\* result is stored under the request whatever the result list is.
C9_StoredWhateverFound ==
    (last.status = "miss" /\ last.searched) =>
        \E i \in 1..Len(places_queries) : StoredForLast(i)

\* After a miss whose search returned places, the new last row is the entry
\* of the request and holds the places found.
C9_StoredState ==
    (last.status = "miss" /\ last.searched /\ last.found # <<>>) =>
        /\ Len(places_queries) = last.rows_before + 1
        /\ StoredForLast(Len(places_queries))
        /\ places_queries[Len(places_queries)].places =
              [j \in 1..Len(last.found) |-> to_dict(last.found[j])]

\* The next iteration runs the request of the last one again.
SameRequestNext ==
    /\ steps' = steps + 1
    /\ last'.location = last.location
    /\ last'.radius_km = last.radius_km
    /\ last'.query = last.query

\* C9 amended: after a miss whose search returned at least one place, the
\* result is stored under (center, radius_km, kind, descriptor), so that the
\* same query issued next is a hit and sends no second search; an empty
\* result list is not stored.
C9_StoredWhenFound ==
    /\ []C9_StoredState
    /\ [][(last.status = "miss" /\ last.searched /\ SameRequestNext) =>
            IF last.found # <<>>
            THEN last'.status = "hit" /\ provider_calls' = provider_calls
            ELSE last'.status = "miss" /\ Len(places_queries) = last.rows_before]_vars

\* C9 witness: the query of a miss that stored places was issued again and hit
\* the new entry.
C9_Witness ==
    /\ last.status = "hit"
    /\ last.hit = Len(places_queries)
    /\ StoredForLast(last.hit)
    /\ plan_queries[Len(plan_queries) - 1].query_id = last.hit

\* No two entries of the same radius, kind and descriptor have centers within
\* the tolerance of each other on both axes.
NoNearDuplicates ==
    \A i, j \in 1..Len(places_queries) :
        (/\ i # j
         /\ places_queries[i].radius_km = places_queries[j].radius_km
         /\ places_queries[i].query_type = places_queries[j].query_type
         /\ places_queries[i].query = places_queries[j].query)
        => \/ AbsDiff(places_queries[i].lat, places_queries[j].lat) > Epsilon
           \/ AbsDiff(places_queries[i].long, places_queries[j].long) > Epsilon

\* C10: with the calls run one at a time, an entry is created at most once per
\* (center within tolerance, radius_km, kind, descriptor), and an entry once
\* created is never modified or deleted.
C10_EntryLifecycle ==
    /\ []NoNearDuplicates
    /\ [][/\ Len(places_queries') >= Len(places_queries)
          /\ \A i \in 1..Len(places_queries) : places_queries'[i] = places_queries[i]]_vars

\* C10 witness: two entries of the same radius, kind and descriptor exist, and
\* a query whose center is within the tolerance of both was a hit.
C10_Witness ==
    /\ last.status = "hit"
    /\ Cardinality(EntriesForLast) = 2
    /\ Len(places_queries) = 2

(***************************************************************************)
(* Ranking of the places in get_plan (app/main.py) with                    *)
(* filter_and_sort_places (app/places.py).  Ratings are whole stars.       *)
(***************************************************************************)
\* A second "Cafe" with the rating of a1 and no opening hours.
e1 == PlaceResult("e", "Cafe", Location(1, 1), Some(4), Some(2), "Cafe",
                  Some(<<"cafe">>), None, None, Some("nearby"), Some(<<>>))

\* The places of the mappings that are ranked.
RankPlaces == SamplePlaces \cup {e1}

\* Values of the parameter `rating` of /plan.
MinRatings == {0, 3, 4}

\* x.get("rating") or 0
rating_or_zero(x) == IF x.rating = None THEN 0 ELSE x.rating[1]

\* The dict filter_and_sort_places builds for one place.
filtered_place(place) ==
    [name |-> place.name,
     rating |-> place.rating,
     opening_hours |->
         IF place.opening_hours = None
         THEN [text |-> "Open 24 hours"]
         ELSE [lines |-> GetDefault(place.opening_hours[1], "weekdayDescriptions", <<>>)]]

\* One step of list.sort(key = rating or 0, reverse = True): x goes after the
\* elements whose key is not smaller (the sort is stable).
insert_by_rating(sorted, x) ==
    LET pos == Cardinality({i \in 1..Len(sorted) :
                               rating_or_zero(sorted[i]) >= rating_or_zero(x)})
    IN  SubSeq(sorted, 1, pos) \o <<x>> \o SubSeq(sorted, pos + 1, Len(sorted))

RECURSIVE sort_by_rating(_)
sort_by_rating(items) ==
    IF items = <<>> THEN <<>>
    ELSE insert_by_rating(sort_by_rating(SubSeq(items, 1, Len(items) - 1)),
                          items[Len(items)])

\* filter_and_sort_places without the sort.
filter_and_sort_places_unsorted(place_seq) ==
    [i \in 1..Len(place_seq) |-> filtered_place(place_seq[i])]

filter_and_sort_places(place_seq) ==
    sort_by_rating([i \in 1..Len(place_seq) |-> filtered_place(place_seq[i])])

\* The condition of get_plan without the test on seen_places.
keep_place_any_name(place, seen_places, rating) ==
    /\ place.name # ""
    /\ rating_or_zero(place) >= rating

\* The condition of get_plan with > in place of >=.
keep_place_strict(place, seen_places, rating) ==
    /\ place.name # ""
    /\ place.name \notin seen_places
    /\ rating_or_zero(place) > rating

\* place_name and place_name not in seen_places and (rating or 0) >= rating
keep_place(place, seen_places, rating) ==
    /\ place.name # ""
    /\ place.name \notin seen_places
    /\ rating_or_zero(place) >= rating

\* The inner loop of get_plan over filtered_places, from position i on.
RECURSIVE select_unique(_, _, _, _)
select_unique(filtered_places, i, acc, rating) ==
    IF i > Len(filtered_places) THEN acc
    ELSE LET place == filtered_places[i]
         IN  IF keep_place(place, acc.seen_places, rating)
             THEN select_unique(filtered_places, i + 1,
                                [unique_places |-> Append(acc.unique_places, place),
                                 seen_places |-> acc.seen_places \cup {place.name},
                                 count |-> acc.count + 1],
                                rating)
             ELSE select_unique(filtered_places, i + 1, acc, rating)

\* The outer loop of get_plan over results.items(), from group g on.
RECURSIVE process_results(_, _, _, _)
process_results(result_map, g, acc, rating) ==
    IF g > Len(result_map) THEN acc
    ELSE LET selected == select_unique(filter_and_sort_places(result_map[g].value), 1,
                                       [unique_places |-> <<>>,
                                        seen_places |-> acc.seen_places,
                                        count |-> acc.count],
                                       rating)
         IN  process_results(result_map, g + 1,
                             [processed_data |-> DictSet(acc.processed_data,
                                                         result_map[g].key,
                                                         selected.unique_places),
                              seen_places |-> selected.seen_places,
                              count |-> selected.count],
                             rating)

\* count = 0, processed_data = {}, seen_places = set()
ranking_start == [processed_data |-> <<>>, seen_places |-> {}, count |-> 0]

\* The mapping reaches the ranking loop of a request with any minimum rating.
InitRank ==
    /\ InitDb
    /\ InitClusterIdle
    /\ InitSearchIdle
    /\ InitAuxIdle
    /\ upsert_log = <<>>
    /\ sessions = <<>>
    /\ gp_pc = "rank"
    /\ \E rating \in MinRatings :
          gp_req = [number_of_days |-> 1, radius_km |-> 2, rating |-> rating]
    /\ gp_queries = <<>>
    /\ \E flat \in SeqsUpTo(RankPlaces, MaxPlaces) :
          \E lens \in ListLengths(Len(flat)) : gp_results = SplitLists(flat, lens)
    /\ processed_data = <<>>
    /\ unique_places_count = 0
    /\ travel_plan = <<>>
    /\ gp_response = NoResponse

\* get_plan, the loop `for search_category, places in results.items()`.
RankResults ==
    /\ gp_pc = "rank"
    /\ LET ranked == process_results(gp_results, 1, ranking_start, gp_req.rating)
       IN  /\ processed_data' = ranked.processed_data
           /\ unique_places_count' = ranked.count
    /\ gp_pc' = "days"
    /\ UNCHANGED <<gp_req, gp_queries, gp_results, travel_plan, gp_response>>

NextRank ==
    \/ RankResults /\ UNCHANGED <<cl_vars, db_vars, sr_vars, upsert_log, sessions, aux_vars>>

\* The ranking loop applied to every bounded mapping.
SpecRank == InitRank /\ [][NextRank]_vars

(***************************************************************************)
(* Properties of the ranking (checked under SpecRank).                     *)
(***************************************************************************)
\* A missing rating counts as 0.
MissingAsZero(rating) == IF rating = None THEN 0 ELSE rating[1]

\* The positions (group, index) of the ranked output and of the input.
KeptPositions ==
    UNION {{<<g, i>> : i \in 1..Len(processed_data[g].value)} : g \in 1..Len(processed_data)}

InputPositions ==
    UNION {{<<g, i>> : i \in 1..Len(gp_results[g].value)} : g \in 1..Len(gp_results)}

KeptAt(pos) == processed_data[pos[1]].value[pos[2]]

InputAt(pos) == gp_results[pos[1]].value[pos[2]]

\* C16: a place is in the ranked output only if its rating (missing = 0) is
\* at least min_score; a place whose rating equals min_score is kept; every
\* ranked-out place is below min_score, nameless, or a duplicate of a name
\* kept in its own group or in an earlier one.
C16_RankingFilter ==
    gp_pc = "days" =>
        /\ Len(processed_data) = Len(gp_results)
        /\ \A pos \in KeptPositions :
              /\ MissingAsZero(KeptAt(pos).rating) >= gp_req.rating
              /\ KeptAt(pos).name # ""
              /\ processed_data[pos[1]].key = gp_results[pos[1]].key
              /\ \E inp \in InputPositions :
                    /\ inp[1] = pos[1]
                    /\ InputAt(inp).name = KeptAt(pos).name
                    /\ InputAt(inp).rating = KeptAt(pos).rating
        /\ \A inp \in InputPositions :
              \/ MissingAsZero(InputAt(inp).rating) < gp_req.rating
              \/ InputAt(inp).name = ""
              \/ \E pos \in KeptPositions :
                    /\ pos[1] <= inp[1]
                    /\ KeptAt(pos).name = InputAt(inp).name

\* A place rated exactly min_score is kept, one without rating and one rated
\* below min_score are ranked out.
C16_Witness ==
    /\ gp_pc = "days"
    /\ gp_req.rating > 0
    /\ \E pos \in KeptPositions : KeptAt(pos).rating = Some(gp_req.rating)
    /\ \E inp \in InputPositions : InputAt(inp).rating = None
    /\ \E inp \in InputPositions :
          /\ InputAt(inp).rating # None
          /\ MissingAsZero(InputAt(inp).rating) < gp_req.rating

\* The input positions of a group whose record has the given name.
SameName(g, name) == {inp \in InputPositions : inp[1] = g /\ InputAt(inp).name = name}

\* C17 (as stated): of the records of a list that share a display name, the
\* one that comes first in the input list is the one kept.
C17_FirstInInputKept ==
    gp_pc = "days" =>
        \A pos \in KeptPositions :
            \E first \in SameName(pos[1], KeptAt(pos).name) :
                /\ \A other \in SameName(pos[1], KeptAt(pos).name) : first[2] <= other[2]
                /\ KeptAt(pos) = filtered_place(InputAt(first))

\* C17 (amended): a name is kept once in the whole output, in the first group
\* that has a record of that name rated at least min_score; the record kept
\* is the highest-rated of the group's records with that name, and among
\* equally rated ones the first of the input list.
C17_HighestRatedOfNameKept ==
    gp_pc = "days" =>
        \A pos \in KeptPositions :
            LET same == SameName(pos[1], KeptAt(pos).name)
                best == {inp \in same :
                            \A other \in same :
                                MissingAsZero(InputAt(inp).rating)
                                    >= MissingAsZero(InputAt(other).rating)}
            IN  /\ \A other \in KeptPositions :
                      other # pos => KeptAt(other).name # KeptAt(pos).name
                /\ \A g \in 1..(pos[1] - 1) :
                      \A inp \in SameName(g, KeptAt(pos).name) :
                          MissingAsZero(InputAt(inp).rating) < gp_req.rating
                /\ \E first \in best :
                      /\ \A other \in best : first[2] <= other[2]
                      /\ KeptAt(pos) = filtered_place(InputAt(first))

\* A list whose first "Cafe" is rated lower than a later one, and the later
\* one is the record kept.
C17_Witness ==
    /\ gp_pc = "days"
    /\ \E pos \in KeptPositions :
          \E early, late \in SameName(pos[1], KeptAt(pos).name) :
              /\ early[2] < late[2]
              /\ MissingAsZero(InputAt(early).rating) < MissingAsZero(InputAt(late).rating)
              /\ KeptAt(pos) = filtered_place(InputAt(late))
              /\ KeptAt(pos) # filtered_place(InputAt(early))

\* rating x log(review_count + 1) of p exceeds that of q; with whole ratings
\* this is (review_count_p + 1)^rating_p > (review_count_q + 1)^rating_q.
WeightedHigher(p, q) ==
    (MissingAsZero(p.user_rating_count) + 1) ^ MissingAsZero(p.rating)
        > (MissingAsZero(q.user_rating_count) + 1) ^ MissingAsZero(q.rating)

\* The record is the only one of the input with its name.
OnlyOfItsName(inp) ==
    \A other \in InputPositions : InputAt(other).name = InputAt(inp).name => other = inp

\* C18: the ranked list is in descending order of the weighted score
\* rating x log(review_count + 1): of two kept places of a list, the one with
\* the higher weighted score comes first, even when its rating is lower.
C18_WeightedScoreOrder ==
    gp_pc = "days" =>
        \A p, q \in InputPositions :
            ( /\ p[1] = q[1]
              /\ OnlyOfItsName(p)
              /\ OnlyOfItsName(q)
              /\ WeightedHigher(InputAt(p), InputAt(q)) )
            => \A i, j \in KeptPositions :
                   ( /\ i[1] = p[1]
                     /\ j[1] = p[1]
                     /\ KeptAt(i).name = InputAt(p).name
                     /\ KeptAt(j).name = InputAt(q).name )
                   => i[2] < j[2]

(***************************************************************************)
(* get_plan (GET /plan, app/main.py).  The calls to the LLM, to the        *)
(* geocoder, to the provider search and to the database either return or   *)
(* raise; what they return is drawn from small sets.  The plan of a day is *)
(* the dict parsed from the LLM answer: {} or a dict with an itinerary.    *)
(***************************************************************************)
MaxNumberOfDays == 5     \* number_of_days: int = Query(1, ge=1, le=5)

\* Values of radius_km on both sides of the test radius_km > 2.
PlanRadii == {2, 3}

\* Values of the parameter `rating` of the requests of the whole flow.
PlanRatings == {0, 5}

\* What get_llm_queries can return: no query, or a list of queries.
LlmQueryLists == { <<>>, <<[type |-> "nearby", category |-> "park"]>> }

\* The places the searches of a /plan request can find.
PlanPlaces == {b1, d1}

\* What get_plan_for_one_day can return: the dict parsed from the answer of
\* the language model, {} or a dict whose itinerary names places.
DayPlans == { <<>>, <<[key |-> "itinerary", value |-> <<"Park", "Museum">>]>> }

\* f"day_{day_number}"
day_key(day_number) == <<"day_", day_number>>

\* A loop that plans one day per group of places.
plan_days_per_group(days, result_map) == Len(result_map)

\* range(number_of_days): the number of days that are planned.
plan_days_count(days, result_map) == days

\* number_of_days > 1 and radius_km > 2
should_use_clustering(req) == req.number_of_days > 1 /\ req.radius_km > 2

\* The mappings cluster_places_by_location(results, number_of_days) can return.
cluster_places_by_location(result_map, days) ==
    LET place_seq == dedup_places_list(result_map)
    IN  IF Len(place_seq) = 0 THEN {<<>>}
        ELSE IF is_trivial(Len(place_seq), days) THEN {trivial_clusters(place_seq)}
        ELSE {organize_by_cluster(place_seq, cluster_labels, days) :
                  cluster_labels \in KMeansLabels(Len(place_seq), days)}

\* raise HTTPException(status_code = code)
http_error(code) ==
    [kind |-> "error", status_code |-> code, travel_plan |-> <<>>,
     unique_places_count |-> 0, processed_data |-> <<>>]

\* A bare `return`: the response has status 200 and the body null.
null_response ==
    [kind |-> "null", status_code |-> 200, travel_plan |-> <<>>,
     unique_places_count |-> 0, processed_data |-> <<>>]

\* The dict returned at the end of get_plan.
plan_response(plan, count, processed) ==
    [kind |-> "plan", status_code |-> 200, travel_plan |-> plan,
     unique_places_count |-> count, processed_data |-> processed]

\* A /plan request with valid parameters arrives.
InitPlan ==
    /\ InitDb
    /\ InitClusterIdle
    /\ InitSearchIdle
    /\ InitAuxIdle
    /\ upsert_log = <<>>
    /\ sessions = <<>>
    /\ gp_pc = "step1"
    /\ \E days \in 1..MaxNumberOfDays : \E radius_km \in PlanRadii : \E rating \in PlanRatings :
          gp_req = [number_of_days |-> days, radius_km |-> radius_km, rating |-> rating]
    /\ gp_queries = <<>>
    /\ gp_results = <<>>
    /\ processed_data = <<>>
    /\ unique_places_count = 0
    /\ travel_plan = <<>>
    /\ gp_response = NoResponse

\* Up to step 1: user activity, geocoding, the TravelPlan row, get_llm_queries.
\* Any exception becomes HTTP 500; an empty list of queries ends the request
\* with a bare `return`.
GetQueries ==
    /\ gp_pc = "step1"
    /\ \/ /\ gp_response' = http_error(500)
          /\ gp_pc' = "done"
          /\ UNCHANGED gp_queries
       \/ \E queries \in LlmQueryLists :
             /\ gp_queries' = queries
             /\ IF queries = <<>>
                THEN gp_response' = null_response /\ gp_pc' = "done"
                ELSE gp_response' = gp_response /\ gp_pc' = "step2"
    /\ UNCHANGED <<gp_req, gp_results, processed_data, unique_places_count, travel_plan>>

\* Step 2: execute_search_queries (an exception becomes HTTP 400 or 500),
\* then cluster_places_by_location when clustering is used.
ExecuteSearch ==
    /\ gp_pc = "step2"
    /\ \/ \E code \in {400, 500} :
             /\ gp_response' = http_error(code)
             /\ gp_pc' = "done"
             /\ UNCHANGED gp_results
       \/ \E flat \in SeqsUpTo(PlanPlaces, MaxPlaces) :
             \E lens \in ListLengths(Len(flat)) :
                \E result_map \in
                       IF should_use_clustering(gp_req)
                       THEN cluster_places_by_location(SplitLists(flat, lens),
                                                       gp_req.number_of_days)
                       ELSE {SplitLists(flat, lens)} :
                    /\ gp_results' = result_map
                    /\ gp_pc' = "rank"
                    /\ UNCHANGED gp_response
    /\ UNCHANGED <<gp_req, gp_queries, processed_data, unique_places_count, travel_plan>>

\* One iteration of `for i in range(number_of_days)`: get_plan_for_one_day
\* returns the plan of the day, or raises (HTTP 500).
PlanDay ==
    /\ gp_pc = "days"
    /\ Len(travel_plan) < plan_days_count(gp_req.number_of_days, gp_results)
    /\ \/ /\ gp_response' = http_error(500)
          /\ gp_pc' = "done"
          /\ UNCHANGED travel_plan
       \/ \E plan_per_day \in DayPlans :
             /\ travel_plan' = DictSet(travel_plan, day_key(Len(travel_plan) + 1),
                                       plan_per_day)
             /\ UNCHANGED <<gp_pc, gp_response>>
    /\ UNCHANGED <<gp_req, gp_queries, gp_results, processed_data, unique_places_count>>

\* After the loop: the plan is saved, its places are enriched, the dict is
\* returned.
ReturnPlan ==
    /\ gp_pc = "days"
    /\ Len(travel_plan) >= plan_days_count(gp_req.number_of_days, gp_results)
    /\ gp_response' = plan_response(travel_plan, unique_places_count, processed_data)
    /\ gp_pc' = "done"
    /\ UNCHANGED <<gp_req, gp_queries, gp_results, processed_data,
                   unique_places_count, travel_plan>>

NextPlan ==
    \/ GetQueries /\ UNCHANGED <<cl_vars, db_vars, sr_vars, upsert_log, sessions, aux_vars>>
    \/ ExecuteSearch /\ UNCHANGED <<cl_vars, db_vars, sr_vars, upsert_log, sessions, aux_vars>>
    \/ RankResults /\ UNCHANGED <<cl_vars, db_vars, sr_vars, upsert_log, sessions, aux_vars>>
    \/ PlanDay /\ UNCHANGED <<cl_vars, db_vars, sr_vars, upsert_log, sessions, aux_vars>>
    \/ ReturnPlan /\ UNCHANGED <<cl_vars, db_vars, sr_vars, upsert_log, sessions, aux_vars>>

\* One /plan request from its arrival to its response.
SpecPlan == InitPlan /\ [][NextPlan]_vars

(***************************************************************************)
(* Properties of get_plan (checked under SpecPlan).                        *)
(***************************************************************************)
\* C19: when ranking leaves no place, no itinerary is built from the empty
\* data and the request does not end with a normal plan: the outcome is an
\* explicit "no results", neither a plan nor an error.
C19_NoResultsSignal ==
    /\ (gp_pc = "days" /\ unique_places_count = 0) => travel_plan = <<>>
    /\ (gp_pc = "done" /\ gp_response.kind = "plan") =>
           gp_response.unique_places_count > 0

\* The day keys of a travel_plan.
DayKeys(plan) == {plan[i].key : i \in 1..Len(plan)}

MaxResults == 2    \* argument max_results of a search
MaxPageLen == 2    \* entries in one page of the provider

\* max_requests = 10
max_requests == 10

\* Raw entries: two well-formed ones, and one without id, one without
\* display name, one without location.
raw_a == [id |-> "a", displayName |-> [text |-> "Cafe"],
          location |-> [latitude |-> 0, longitude |-> 0], rating |-> 4]
raw_b == [id |-> "b", displayName |-> [text |-> "Park"],
          location |-> [latitude |-> 5, longitude |-> 5]]
raw_no_id == [displayName |-> [text |-> "Bar"],
              location |-> [latitude |-> 1, longitude |-> 1]]
raw_no_name == [id |-> "n", location |-> [latitude |-> 2, longitude |-> 2]]
raw_no_location == [id |-> "l", displayName |-> [text |-> "Zoo"]]

RawEntries == {raw_a, raw_b, raw_no_id, raw_no_name, raw_no_location}

\* data.get("places", []) of a 200 response.
ProviderPages == SeqsUpTo(RawEntries, MaxPageLen)

\* data.get("nextPageToken") of a 200 response.
PageTokens == {None, Some("token")}

\* dict.get(key, {}) where the value is a dict.
GetDict(d, k) == IF k \in DOMAIN d THEN d[k] ELSE <<>>

\* A parser that does not test the location.
parse_place_data_any_location(place_data, search_type) ==
    LET place_id == GetDefault(place_data, "id", "")
        display_name == GetDefault(GetDict(place_data, "displayName"), "text", "")
        location_data == GetDict(place_data, "location")
    IN  IF place_id = "" \/ display_name = ""
        THEN None
        ELSE Some(PlaceResult(place_id, display_name,
                              Location(GetDefault(location_data, "latitude", 0),
                                       GetDefault(location_data, "longitude", 0)),
                              Get(place_data, "rating"),
                              Get(place_data, "userRatingCount"),
                              GetDefault(GetDict(place_data, "primaryTypeDisplayName"),
                                         "text", ""),
                              Some(GetDefault(place_data, "types", <<>>)),
                              Get(place_data, "formattedAddress"),
                              Get(place_data, "regularOpeningHours"),
                              Some(search_type), Some(<<>>)))

\* _parse_place_data: None for an entry without id, display name or location.
parse_place_data(place_data, search_type) ==
    LET place_id == GetDefault(place_data, "id", "")
        display_name == GetDefault(GetDict(place_data, "displayName"), "text", "")
        location_data == GetDict(place_data, "location")
    IN  IF place_id = "" \/ display_name = "" \/ DOMAIN location_data = {}
        THEN None
        ELSE Some(PlaceResult(place_id, display_name,
                              Location(GetDefault(location_data, "latitude", 0),
                                       GetDefault(location_data, "longitude", 0)),
                              Get(place_data, "rating"),
                              Get(place_data, "userRatingCount"),
                              GetDefault(GetDict(place_data, "primaryTypeDisplayName"),
                                         "text", ""),
                              Some(GetDefault(place_data, "types", <<>>)),
                              Get(place_data, "formattedAddress"),
                              Get(place_data, "regularOpeningHours"),
                              Some(search_type), Some(<<>>)))

\* for place_data in places: place = _parse_place_data(...); if place: append
RECURSIVE append_parsed(_, _, _)
append_parsed(place_seq, page, search_type) ==
    IF page = <<>> THEN place_seq
    ELSE LET place == parse_place_data(Head(page), search_type)
         IN  append_parsed(IF place # None THEN Append(place_seq, place[1]) ELSE place_seq,
                           Tail(page), search_type)

\* all_places[:max_results]
slice_to(place_seq, n) == SubSeq(place_seq, 1, IF Len(place_seq) < n THEN Len(place_seq) ELSE n)

\* A caller's max_results above the largest page the provider is asked for.
LargeMaxResults == 21

\* What the provider answers to a search with the given max_results: any
\* short page for a small max_results; for the large one an empty page, a
\* page of one place or a page of 20 places, whatever count was asked for.
ProviderPagesFor(n) ==
    IF n = LargeMaxResults
    THEN {<<>>, <<raw_b>>, [i \in 1..20 |-> raw_a]}
    ELSE ProviderPages

\* A page size without the cap of 20.
page_size_uncapped(n, place_seq) == n - Len(place_seq)

\* min(20, max_results - len(all_places))
page_size(n, place_seq) ==
    IF 20 < n - Len(place_seq) THEN 20 ELSE n - Len(place_seq)

\* A loop test without the bound on the requests.
loop_continues_unbounded == Len(sr_all_places) < max_results

\* while len(all_places) < max_results and requests_made < max_requests
loop_continues == Len(sr_all_places) < max_results /\ requests_made < max_requests

\* A search of either kind is called with some max_results.
InitSearch ==
    /\ InitDb
    /\ InitClusterIdle
    /\ InitPlanIdle
    /\ InitAuxIdle
    /\ upsert_log = <<>>
    /\ sessions = <<>>
    /\ sr_pc = "loop"
    /\ sr_type \in {"nearby", "text"}
    /\ max_results \in 1..MaxResults \cup {LargeMaxResults}
    /\ sr_all_places = <<>>
    /\ next_page_token = None
    /\ requests_made = 0
    /\ sr_page = <<>>
    /\ sr_failed = FALSE
    /\ sr_returned = <<>>
    /\ requests_sent = 0
    /\ max_result_count = 0

\* One iteration of the while loop: the request raises or is answered with
\* a status other than 200 (break), or a page is received and parsed.
SearchRequest ==
    /\ sr_pc = "loop"
    /\ loop_continues
    /\ max_result_count' = page_size(max_results, sr_all_places)
    /\ requests_sent' = requests_sent + 1
    /\ \/ /\ sr_failed' = TRUE
          /\ sr_pc' = "exit"
          /\ UNCHANGED <<sr_all_places, next_page_token, requests_made, sr_page>>
       \/ \E page \in ProviderPagesFor(max_results) : \E token \in PageTokens :
             /\ sr_page' = page
             /\ sr_all_places' = append_parsed(sr_all_places, page, sr_type)
             /\ next_page_token' = token
             /\ IF token = None
                THEN sr_pc' = "exit" /\ UNCHANGED requests_made
                ELSE sr_pc' = "loop" /\ requests_made' = requests_made + 1
             /\ UNCHANGED sr_failed
    /\ UNCHANGED <<sr_type, max_results, sr_returned>>

\* return all_places[:max_results], after a break or when the loop ends.
SearchReturn ==
    /\ sr_pc = "exit" \/ (sr_pc = "loop" /\ ~loop_continues)
    /\ sr_returned' = slice_to(sr_all_places, max_results)
    /\ sr_pc' = "returned"
    /\ UNCHANGED <<sr_type, max_results, sr_all_places, next_page_token,
                   requests_made, sr_page, sr_failed, requests_sent, max_result_count>>

NextSearch ==
    \/ SearchRequest /\ UNCHANGED <<cl_vars, db_vars, gp_vars, upsert_log, sessions, aux_vars>>
    \/ SearchReturn /\ UNCHANGED <<cl_vars, db_vars, gp_vars, upsert_log, sessions, aux_vars>>

\* One provider search from the call to the return.
SpecSearch == InitSearch /\ [][NextSearch]_vars

\* The search is straight-line code around a loop: it goes on running.
SpecSearchFair == InitSearch /\ [][NextSearch]_vars /\ WF_vars(NextSearch)

(***************************************************************************)
(* Properties of the provider search (checked under SpecSearch).           *)
(***************************************************************************)
\* C13: a failure of the provider (exception or status other than 200)
\* reaches the caller as a failure: the search never returns a list, empty
\* or partial, after a request failed.
C13_FailurePropagates == sr_pc = "returned" => ~sr_failed

\* The raw entry has an id, a display name and a location.
WellFormed(entry) ==
    /\ "id" \in DOMAIN entry
    /\ "displayName" \in DOMAIN entry
    /\ "location" \in DOMAIN entry

\* id, display name and location of a raw entry and of a place.
RawBrief(entry) ==
    <<entry.id, entry.displayName.text,
      entry.location.latitude, entry.location.longitude>>

PlaceBrief(place) ==
    <<place.id, place.name, place.location.latitude, place.location.longitude>>

\* The well-formed entries of a page, in provider order.
RECURSIVE WellFormedBriefs(_)
WellFormedBriefs(page) ==
    IF page = <<>> THEN <<>>
    ELSE (IF WellFormed(Head(page)) THEN <<RawBrief(Head(page))>> ELSE <<>>)
             \o WellFormedBriefs(Tail(page))

\* A step of the search that received a page.
PageStep ==
    /\ sr_pc = "loop"
    /\ sr_pc' \in {"loop", "exit"}
    /\ ~sr_failed'

\* C14: a raw entry without id, display name or location yields no place
\* and does not end the search; the other entries of its page are mapped, in
\* provider order, to places of the kind of the search, and the list
\* returned is the list of the mapped places up to max_results.
C14_MalformedSkipped ==
    /\ [][PageStep =>
             /\ Len(sr_all_places') = Len(sr_all_places) + Len(WellFormedBriefs(sr_page'))
             /\ SubSeq(sr_all_places', 1, Len(sr_all_places)) = sr_all_places
             /\ \A i \in 1..Len(WellFormedBriefs(sr_page')) :
                   /\ PlaceBrief(sr_all_places'[Len(sr_all_places) + i])
                          = WellFormedBriefs(sr_page')[i]
                   /\ sr_all_places'[Len(sr_all_places) + i].search_type = Some(sr_type)
             /\ next_page_token' # None => sr_pc' = "loop"]_vars
    /\ [](sr_pc = "returned" =>
             /\ Len(sr_returned) <= max_results
             /\ Len(sr_returned) <= Len(sr_all_places)
             /\ (Len(sr_all_places) <= max_results => sr_returned = sr_all_places)
             /\ \A i \in 1..Len(sr_returned) : sr_returned[i] = sr_all_places[i])

\* A search returned the places of a page in which a malformed entry comes
\* before a well-formed one.
C14_Witness ==
    /\ sr_pc = "returned"
    /\ ~sr_failed
    /\ \E i, j \in 1..Len(sr_page) :
          /\ i < j
          /\ ~WellFormed(sr_page[i])
          /\ WellFormed(sr_page[j])
          /\ sr_returned # <<>>
          /\ PlaceBrief(sr_returned[Len(sr_returned)]) = RawBrief(sr_page[j])

(***************************************************************************)
(* Bookkeeping of execute_search_queries (checked under Spec).             *)
(***************************************************************************)
\* A step of the search branch that stored its results: a PlacesQuery row
\* is added.
StoreStep == Len(places_queries') = Len(places_queries) + 1

\* Every place of the list is linked to the plan in the table.
AllLinked(table, plan_id, place_seq) ==
    \A j \in 1..Len(place_seq) :
        \E k \in 1..Len(table) :
            table[k] = [plan_id |-> plan_id, place_id |-> place_seq[j].id]

\* C12: a cache hit for plan P adds the PlanQuery row (P, id of the entry
\* that was hit) and links every place of the cached list to P, as a miss
\* with results adds (P, id of the new entry) and links the places found.
C12_HitBookkeeping ==
    [][ /\ HitStep =>
              /\ last'.hit \in 1..Len(places_queries)
              /\ plan_queries' = Append(plan_queries,
                                        [plan_id |-> call.plan_id, query_id |-> last'.hit])
              /\ AllLinked(plan_places', call.plan_id, searched_lists[last'.hit])
        /\ StoreStep =>
              /\ plan_queries' = Append(plan_queries,
                                        [plan_id |-> call.plan_id,
                                         query_id |-> Len(places_queries')])
              /\ AllLinked(plan_places', call.plan_id,
                           searched_lists'[Len(searched_lists')]) ]_vars

\* Plan 2 hit the entry that plan 1 had stored with two places: both plans
\* are associated with the entry and linked to its two places.
C12_Witness ==
    /\ last.status = "hit"
    /\ last.plan_id = 2
    /\ Len(searched_lists[last.hit]) = 2
    /\ \E q \in 1..Len(plan_queries) :
          plan_queries[q] = [plan_id |-> 1, query_id |-> last.hit]
    /\ \E q \in 1..Len(plan_queries) :
          plan_queries[q] = [plan_id |-> 2, query_id |-> last.hit]
    /\ AllLinked(plan_places, 1, searched_lists[last.hit])
    /\ AllLinked(plan_places, 2, searched_lists[last.hit])

(***************************************************************************)
(* upsert_place called directly, any records in any order.                 *)
(***************************************************************************)
MaxUpserts == 3    \* calls of upsert_place

InitUpsert ==
    /\ InitDb
    /\ InitClusterIdle
    /\ InitPlanIdle
    /\ InitSearchIdle
    /\ InitAuxIdle
    /\ sessions = <<>>
    /\ upsert_log = <<>>

\* upsert_place(session, place_result)
UpsertPlace ==
    /\ Len(upsert_log) < MaxUpserts
    /\ \E place_result \in SamplePlaces :
          /\ places' = upsert_place(places, place_result)
          /\ upsert_log' = Append(upsert_log, place_result)
    /\ UNCHANGED <<places_queries, plan_queries, plan_places, provider_calls,
                   call, results, last, searched_lists, steps>>

NextUpsert ==
    \/ UpsertPlace /\ UNCHANGED <<cl_vars, gp_vars, sr_vars, sessions, aux_vars>>

\* Sequences of upsert_place calls.
SpecUpsert == InitUpsert /\ [][NextUpsert]_vars

\* The most recently upserted record with the given id.
LastUpserted(id) ==
    upsert_log[CHOOSE i \in 1..Len(upsert_log) :
                   /\ upsert_log[i].id = id
                   /\ \A j \in (i + 1)..Len(upsert_log) : upsert_log[j].id # id]

\* C15: after any sequence of upsert_place calls the places table has one row
\* for each id that was upserted and no other row, and the fields of the row
\* are those of the most recently upserted record with that id.
C15_OnePlacePerId ==
    /\ \A row1, row2 \in places : row1.place_id = row2.place_id => row1 = row2
    /\ {row.place_id : row \in places} = {upsert_log[i].id : i \in 1..Len(upsert_log)}
    /\ \A row \in places :
          LET record == LastUpserted(row.place_id)
          IN  /\ row.name = record.name
              /\ row.latitude = record.location.latitude
              /\ row.longitude = record.location.longitude
              /\ row.rating = record.rating
              /\ row.user_rating_count = record.user_rating_count
              /\ row.primary_type = record.primary_type
              /\ row.types = record.types
              /\ row.address = record.address
              /\ row.opening_hours = record.opening_hours
              /\ row.photos = record.photos
              /\ row.search_type = record.search_type

\* The id "a" was upserted with two different records, a1 then a2, and
\* another id in between.
C15_Witness ==
    /\ Len(upsert_log) = 3
    /\ upsert_log[1] = a1
    /\ upsert_log[2].id # "a"
    /\ upsert_log[3] = a2
    /\ Cardinality(places) = 2

(***************************************************************************)
(* Two requests run execute_search_queries, each with one query, in two    *)
(* database sessions at the same time.  The lookup, the provider search    *)
(* and the writes of a request are separate steps; the writes of a request *)
(* are one transaction.  The plan of session s is plan s.                  *)
(***************************************************************************)
SessionIds == {1, 2}

\* (location, radius_km) of the requests: two centers within the tolerance
\* of each other, one radius.
RaceContexts == {<<Location(0, 0), 5>>, <<Location(1, 0), 5>>}

RaceQueries ==
    { [type |-> "nearby", category |-> "park"],
      [type |-> "text", query |-> "park"] }

\* The ids of the rows of the places table.
place_ids(table) == {row.place_id : row \in table}

\* The local state of a request that has not looked the cache up yet.
session_start(context, query) ==
    [pc |-> "lookup", location |-> context[1], radius_km |-> context[2], query |-> query,
     missed |-> FALSE, found |-> <<>>, snapshot_ids |-> {}, returned |-> <<>>]

InitRace ==
    /\ InitDb
    /\ InitClusterIdle
    /\ InitPlanIdle
    /\ InitSearchIdle
    /\ InitAuxIdle
    /\ upsert_log = <<>>
    /\ sessions \in [SessionIds -> {session_start(context, query) :
                                       context \in RaceContexts, query \in RaceQueries}]

\* db_query, then the cached branch when a row is found.
SessionLookup(s) ==
    /\ sessions[s].pc = "lookup"
    /\ LET me == sessions[s]
           query_type == Get(me.query, "type")
           query_value == PyOr(Get(me.query, "category"), Get(me.query, "query"))
           rows == db_query_rows(places_queries, me.location, me.radius_km,
                                 query_type, query_value)
       IN  IF rows = {}
           THEN /\ sessions' = [sessions EXCEPT ![s].pc = "search",
                                                ![s].missed = TRUE,
                                                ![s].snapshot_ids = place_ids(places)]
                /\ UNCHANGED <<places, plan_places, plan_queries>>
           ELSE \E first \in rows :
                   LET cached_places == cached_places_of(places_queries[first])
                   IN  /\ places' = upsert_all(places, cached_places)
                       /\ plan_places' = link_all(plan_places, s, cached_places)
                       /\ plan_queries' = Append(plan_queries,
                                                 [plan_id |-> s, query_id |-> first])
                       /\ sessions' = [sessions EXCEPT ![s].pc = "done",
                                                       ![s].returned = cached_places]
    /\ UNCHANGED <<places_queries, provider_calls, call, results, last,
                   searched_lists, steps>>

\* The search of the search branch: the provider answers.
SessionSearch(s) ==
    /\ sessions[s].pc = "search"
    /\ LET me == sessions[s]
           searched == sends_search(me.query)
       IN  \E provider_list \in (IF searched THEN ProviderLists ELSE {<<>>}) :
              LET found == parsed(provider_list, Get(me.query, "type")[1])
              IN  /\ provider_calls' = provider_calls + (IF searched THEN 1 ELSE 0)
                  /\ sessions' = [sessions EXCEPT
                                    ![s].pc = IF stores_miss(found) THEN "store" ELSE "done",
                                    ![s].found = found,
                                    ![s].returned = found]
    /\ UNCHANGED <<places_queries, plan_queries, places, plan_places,
                   call, results, last, searched_lists, steps>>

\* if places: the writes of the search branch and their commit.  When the
\* other session has inserted one of the places since this session read the
\* tables, the insert of this session either fails on the primary key
\* (the session still reads its old snapshot) or becomes an update.
SessionStore(s) ==
    /\ sessions[s].pc = "store"
    /\ LET me == sessions[s]
           query_type == Get(me.query, "type")
           query_value == PyOr(Get(me.query, "category"), Get(me.query, "query"))
           inserted_meanwhile ==
               \E j \in 1..Len(me.found) :
                   /\ me.found[j].id \notin me.snapshot_ids
                   /\ me.found[j].id \in place_ids(places)
       IN  \/ /\ places' = upsert_all(places, me.found)
              /\ plan_places' = link_all(plan_places, s, me.found)
              /\ places_queries' =
                    Append(places_queries,
                           new_places_query(me.location, me.radius_km,
                                            query_type, query_value, me.found))
              /\ searched_lists' = Append(searched_lists, me.found)
              /\ plan_queries' = Append(plan_queries,
                                        [plan_id |-> s,
                                         query_id |-> Len(places_queries) + 1])
              /\ sessions' = [sessions EXCEPT ![s].pc = "done"]
           \/ /\ inserted_meanwhile
              /\ sessions' = [sessions EXCEPT ![s].pc = "failed", ![s].returned = <<>>]
              /\ UNCHANGED <<places, plan_places, places_queries, searched_lists,
                             plan_queries>>
    /\ UNCHANGED <<provider_calls, call, results, last, steps>>

NextRace ==
    \/ \E s \in SessionIds :
          SessionLookup(s) /\ UNCHANGED <<cl_vars, gp_vars, sr_vars, upsert_log, aux_vars>>
    \/ \E s \in SessionIds :
          SessionSearch(s) /\ UNCHANGED <<cl_vars, gp_vars, sr_vars, upsert_log, aux_vars>>
    \/ \E s \in SessionIds :
          SessionStore(s) /\ UNCHANGED <<cl_vars, gp_vars, sr_vars, upsert_log, aux_vars>>

\* Two concurrent requests, every interleaving of their steps.
SpecRace == InitRace /\ [][NextRace]_vars

(***************************************************************************)
(* Properties of the concurrent requests (checked under SpecRace).         *)
(***************************************************************************)
\* The entries of the cache that answer the request of a session.
EntriesForSession(s) ==
    {i \in 1..Len(places_queries) :
        /\ WithinTolerance(places_queries[i], sessions[s].location)
        /\ SameSearch(places_queries[i], sessions[s].radius_km, sessions[s].query)}

\* Both sessions asked for the same center, radius, kind and descriptor,
\* both missed, and both have completed.
BothMissedSameKey ==
    /\ sessions[1].location = sessions[2].location
    /\ sessions[1].query = sessions[2].query
    /\ \A s \in SessionIds : sessions[s].missed /\ sessions[s].pc \in {"done", "failed"}

\* C11: when two sessions miss on the same key at the same time, the cache
\* holds at most one entry for the key after both have completed, so that a
\* later lookup of the key has one list to return.
C11_OneEntryAfterRace ==
    BothMissedSameKey => Cardinality(EntriesForSession(1)) <= 1

(***************************************************************************)
(* Deduplication applied to its own output (checked under SpecCluster).    *)
(***************************************************************************)
\* The deduplicated list handed back as a one-list mapping.
AsResults(place_seq) == <<[key |-> 1, value |-> place_seq]>>

\* C23: deduplicating the already deduplicated list returns that list
\* unchanged, same records in the same order: dedup(dedup(x)) = dedup(x).
C23_DedupIdempotent ==
    cl_pc = "done" => dedup_places_list(AsResults(places_list)) = places_list

\* C23 witness: an input with a repeated id was deduplicated to at least two
\* records, so the second pass has an order and a choice to preserve.
C23_Witness ==
    /\ cl_pc = "done"
    /\ Len(all_places(cl_results)) > Len(places_list)
    /\ Len(places_list) >= 2
    /\ dedup_places_list(AsResults(places_list)) = places_list

(***************************************************************************)
(* Names and count of processed_data (checked under SpecRank).             *)
(***************************************************************************)
\* C30: after the ranking loop no place name occurs twice in processed_data,
\* within a group or across groups, and unique_places_count is the number
\* of entries of all groups together.
C30_NamesUniqueAndCounted ==
    gp_pc = "days" =>
        /\ \A p \in KeptPositions : \A q \in KeptPositions :
               KeptAt(p).name = KeptAt(q).name => p = q
        /\ unique_places_count = Cardinality(KeptPositions)

\* C30 witness: a name offered by two different groups of the input was
\* kept once, and the output has entries in two groups.
C30_Witness ==
    /\ gp_pc = "days"
    /\ \E p \in InputPositions : \E q \in InputPositions :
           p[1] # q[1] /\ InputAt(p).name = InputAt(q).name
                       /\ \E k \in KeptPositions : KeptAt(k).name = InputAt(p).name
    /\ \E p \in KeptPositions : \E q \in KeptPositions : p[1] # q[1]
    /\ unique_places_count >= 2

(***************************************************************************)
(* The cache descriptor and the provider request (checked under Spec).     *)
(***************************************************************************)
\* C27: when a miss sent a search to the provider and stored its results,
\* the descriptor of the stored cache entry (the one later lookups compare
\* with) is the string that was sent to the provider, also for a query dict
\* that carries both a category and a query field.
C27_DescriptorIsSentString ==
    (last.status = "miss" /\ last.searched /\ last.found # <<>>) =>
        places_queries[Len(places_queries)].query = last.sent[1]

(***************************************************************************)
(* The plans table: /plan, /update-plan and GET /plan/{plan_id}.           *)
(* Every request is made by the same user, so the user_id filters of the   *)
(* queries select every row.  The calls of the language model and of the   *)
(* provider return; created_at grows with the id.                          *)
(***************************************************************************)
MaxPlans == 3    \* rows of travel_plans

\* The places the searches of one request hand to upsert_place and
\* link_place_to_plan, in call order: no place, the list of one search, or
\* the lists of two searches that share places.
FetchedPlaces == {<<>>, <<a1, b1>>, <<a1, b1, b1, a2>>}

\* The TravelPlan row with the next id.
new_travel_plan(table, update_for) == [id |-> Len(table) + 1, update_for |-> update_for]

\* update_plan after get_plan returned: original_plan.update_for if
\* original_plan.update_for else original_plan.id
original_plan_id_of(original_plan) ==
    IF original_plan.update_for # None /\ original_plan.update_for[1] # 0
    THEN original_plan.update_for[1]
    ELSE original_plan.id

\* An update_for that names the row after the revised plan.
revised_update_for_next(original_plan) == original_plan.id + 1

\* update_plan, the revision path: update_for = original_plan.id
revised_update_for(original_plan) == original_plan.id

\* get_places_for_plan: select(Place).join(PlanPlace).where(plan_id == ...),
\* in the order of the links.
RECURSIVE get_places_for_plan(_, _, _)
get_places_for_plan(place_table, link_table, plan_id) ==
    IF link_table = <<>> THEN <<>>
    ELSE LET link == Head(link_table)
             joined == {row \in place_table : row.place_id = link.place_id}
             rest == get_places_for_plan(place_table, Tail(link_table), plan_id)
         IN  IF link.plan_id = plan_id /\ joined # {}
             THEN <<CHOOSE row \in joined : TRUE>> \o rest
             ELSE rest

\* update_plan: for place in original_plan_places: link_place_to_plan(...)
RECURSIVE copy_links(_, _, _)
copy_links(link_table, new_plan_id, original_plan_places) ==
    IF original_plan_places = <<>> THEN link_table
    ELSE copy_links(link_place_to_plan(link_table, new_plan_id,
                                       Head(original_plan_places).place_id),
                    new_plan_id, Tail(original_plan_places))

\* get_all_updates, its query: the ids of the plans whose update_for is the
\* given plan, ordered by created_at.
RECURSIVE updates_of(_, _)
updates_of(table, original_plan_id) ==
    IF table = <<>> THEN <<>>
    ELSE LET last_row == table[Len(table)]
             before == updates_of(SubSeq(table, 1, Len(table) - 1), original_plan_id)
         IN  IF last_row.update_for = Some(original_plan_id)
             THEN Append(before, last_row.id)
             ELSE before

InitUpdate ==
    /\ InitDb
    /\ InitClusterIdle
    /\ InitPlanIdle
    /\ InitSearchIdle
    /\ InitAuxIdle
    /\ upsert_log = <<>>
    /\ sessions = <<>>

\* GET /plan: a new plan without update_for; its searches store and link
\* the places they find.
CreatePlan ==
    /\ lk_pc = "idle"
    /\ Len(travel_plans) < MaxPlans
    /\ \E found \in FetchedPlaces :
         LET plan == new_travel_plan(travel_plans, None)
         IN  /\ travel_plans' = Append(travel_plans, plan)
             /\ places' = upsert_all(places, found)
             /\ plan_places' = link_all(plan_places, plan.id, found)
             /\ link_calls' = link_calls + Len(found)
    /\ UNCHANGED <<places_queries, plan_queries, provider_calls, call, results, last,
                   searched_lists, steps>>
    /\ UNCHANGED <<lk_pc, lk_plan, lk_original, lk_stack, update_plans>>

\* GET /update-plan, params_changed: get_plan makes the new plan, then its
\* update_for is set to the original of the revised plan.
UpdateChangedParams ==
    /\ lk_pc = "idle"
    /\ Len(travel_plans) < MaxPlans
    /\ \E plan_id \in 1..Len(travel_plans) : \E found \in FetchedPlaces :
         LET original_plan == travel_plans[plan_id]
             new_plan == new_travel_plan(travel_plans,
                                         Some(original_plan_id_of(original_plan)))
         IN  /\ travel_plans' = Append(travel_plans, new_plan)
             /\ places' = upsert_all(places, found)
             /\ plan_places' = link_all(plan_places, new_plan.id, found)
             /\ link_calls' = link_calls + Len(found)
    /\ UNCHANGED <<places_queries, plan_queries, provider_calls, call, results, last,
                   searched_lists, steps>>
    /\ UNCHANGED <<lk_pc, lk_plan, lk_original, lk_stack, update_plans>>

\* GET /update-plan, the revision path: a new plan that refers to the
\* revised one, the links of the revised plan copied, then the places of
\* the new searches (fetch_data is "true") or of the stored queries chosen
\* for the revision (otherwise) stored and linked.
UpdateRevise ==
    /\ lk_pc = "idle"
    /\ Len(travel_plans) < MaxPlans
    /\ \E plan_id \in 1..Len(travel_plans) : \E found \in FetchedPlaces :
         LET original_plan == travel_plans[plan_id]
             new_plan == new_travel_plan(travel_plans,
                                         Some(revised_update_for(original_plan)))
             original_plan_places ==
                 get_places_for_plan(places, plan_places, original_plan.id)
         IN  /\ travel_plans' = Append(travel_plans, new_plan)
             /\ places' = upsert_all(places, found)
             /\ plan_places' =
                    link_all(copy_links(plan_places, new_plan.id, original_plan_places),
                             new_plan.id, found)
             /\ link_calls' = link_calls + Len(original_plan_places) + Len(found)
    /\ UNCHANGED <<places_queries, plan_queries, provider_calls, call, results, last,
                   searched_lists, steps>>
    /\ UNCHANGED <<lk_pc, lk_plan, lk_original, lk_stack, update_plans>>

\* GET /plan/{plan_id}: the plan is found, original_plan is the plan itself
\* or the plan its update_for names, and get_all_updates is called on it.
BeginLookup ==
    /\ lk_pc \in {"idle", "done"}
    /\ \E plan_id \in 1..Len(travel_plans) :
         LET plan == travel_plans[plan_id]
             original_plan_id == IF plan.update_for = None THEN plan.id
                                 ELSE plan.update_for[1]
         IN  /\ lk_plan' = plan_id
             /\ lk_original' = original_plan_id
             /\ lk_stack' = updates_of(travel_plans, original_plan_id)
    /\ update_plans' = <<>>
    /\ lk_pc' = "walk"
    /\ UNCHANGED <<db_vars, travel_plans, link_calls>>

\* get_all_updates, one iteration of `for update in updates`: the update
\* is appended, then its own updates are visited before the remaining ones.
GetAllUpdatesStep ==
    /\ lk_pc = "walk"
    /\ lk_stack # <<>>
    /\ Len(update_plans) <= MaxPlans
    /\ update_plans' = Append(update_plans, Head(lk_stack))
    /\ lk_stack' = updates_of(travel_plans, Head(lk_stack)) \o Tail(lk_stack)
    /\ UNCHANGED <<db_vars, travel_plans, lk_pc, lk_plan, lk_original, link_calls>>

\* get_all_updates has returned to get_plan_by_id.
ReturnLookup ==
    /\ lk_pc = "walk"
    /\ lk_stack = <<>>
    /\ lk_pc' = "done"
    /\ UNCHANGED <<db_vars, travel_plans, lk_plan, lk_original, lk_stack, update_plans,
                   link_calls>>

NextUpdate ==
    \/ CreatePlan /\ UNCHANGED <<cl_vars, gp_vars, sr_vars, upsert_log, sessions, tw_vars, rs_vars>>
    \/ UpdateChangedParams /\ UNCHANGED <<cl_vars, gp_vars, sr_vars, upsert_log, sessions, tw_vars, rs_vars>>
    \/ UpdateRevise /\ UNCHANGED <<cl_vars, gp_vars, sr_vars, upsert_log, sessions, tw_vars, rs_vars>>
    \/ BeginLookup /\ UNCHANGED <<cl_vars, gp_vars, sr_vars, upsert_log, sessions, tw_vars, rs_vars>>
    \/ GetAllUpdatesStep /\ UNCHANGED <<cl_vars, gp_vars, sr_vars, upsert_log, sessions, tw_vars, rs_vars>>
    \/ ReturnLookup /\ UNCHANGED <<cl_vars, gp_vars, sr_vars, upsert_log, sessions, tw_vars, rs_vars>>

\* Any sequence of /plan, /update-plan and /plan/{plan_id} requests.
SpecUpdate == InitUpdate /\ [][NextUpdate]_vars

\* A running get_plan_by_id goes on with its loop and returns.
SpecUpdateFair ==
    InitUpdate /\ [][NextUpdate]_vars
        /\ WF_vars((GetAllUpdatesStep \/ ReturnLookup)
                       /\ UNCHANGED <<cl_vars, gp_vars, sr_vars, upsert_log, sessions,
                                      tw_vars, rs_vars>>)

(***************************************************************************)
(* Properties of the plans table (checked under SpecUpdate and             *)
(* SpecUpdateFair).                                                        *)
(***************************************************************************)
PlanIds == 1..Len(travel_plans)

\* Whether following update_for from plan q reaches plan root in at most
\* `hops` steps (at least one).
RECURSIVE Reaches(_, _, _)
Reaches(q, root, hops) ==
    /\ hops > 0
    /\ q \in PlanIds
    /\ travel_plans[q].update_for # None
    /\ \/ travel_plans[q].update_for[1] = root
       \/ Reaches(travel_plans[q].update_for[1], root, hops - 1)

\* The plans derived from root, directly or through other updates.
DerivedPlans(root) == {q \in PlanIds : Reaches(q, root, Len(travel_plans))}

TimesListed(q) == Cardinality({i \in 1..Len(update_plans) : update_plans[i] = q})

\* Every update_for is null or names a plan created earlier.
RefersToEarlierPlan ==
    \A q \in PlanIds :
        \/ travel_plans[q].update_for = None
        \/ travel_plans[q].update_for[1] \in 1..(q - 1)

\* update_plans is the plans derived from the reported original, each once.
ListsDerivedOnce ==
    /\ \A q \in DerivedPlans(lk_original) : TimesListed(q) = 1
    /\ \A i \in 1..Len(update_plans) : update_plans[i] \in DerivedPlans(lk_original)

\* C26: when get_plan_by_id has answered, the plan it reports as
\* original_plan has a null update_for, and update_plans holds every plan
\* derived from it, directly or through other updates.
C26_OriginalHasNoUpdateFor ==
    lk_pc = "done" =>
        /\ travel_plans[lk_original].update_for = None
        /\ \A q \in DerivedPlans(lk_original) : TimesListed(q) >= 1

\* C29: every plan's update_for is null or names a plan created before it;
\* a running get_all_updates never lists a plan twice, always returns, and
\* has then listed each plan derived from its argument exactly once.
C29_AcyclicAndTerminates ==
    /\ [](RefersToEarlierPlan
          /\ (\A q \in PlanIds : TimesListed(q) <= 1)
          /\ (lk_pc = "done" => ListsDerivedOnce))
    /\ ((lk_pc = "walk") ~> (lk_pc = "done"))

\* C29 witness: a lookup returned two updates, one of them an update of the
\* other.
C29_Witness ==
    /\ lk_pc = "done"
    /\ Len(update_plans) >= 2
    /\ \E i \in 1..Len(update_plans) : \E j \in 1..Len(update_plans) :
          travel_plans[update_plans[j]].update_for = Some(update_plans[i])

\* The (plan_id, place_id) pairs of the links.
LinkedPairs == {<<plan_places[i].plan_id, plan_places[i].place_id>> : i \in 1..Len(plan_places)}

\* C28: the links table never holds two links for the same (plan_id,
\* place_id), and linking a pair that is already linked returns the table
\* as it is.
C28_OneLinkPerPair ==
    /\ \A i \in 1..Len(plan_places) : \A j \in 1..Len(plan_places) :
          (plan_places[i].plan_id = plan_places[j].plan_id
              /\ plan_places[i].place_id = plan_places[j].place_id) => i = j
    /\ \A pair \in LinkedPairs :
          link_place_to_plan(plan_places, pair[1], pair[2]) = plan_places

\* C28 witness: some call linked a pair that was already linked, and a
\* revised plan holds links copied from the plan it revises.
C28_Witness ==
    /\ link_calls > Len(plan_places)
    /\ \E q \in PlanIds : \E p \in PlanIds :
          /\ travel_plans[q].update_for = Some(p)
          /\ \E place_id \in {"a", "b"} :
                {<<p, place_id>>, <<q, place_id>>} \subseteq LinkedPairs

(***************************************************************************)
(* Bounds of the paginated search (checked under SpecSearchFair).          *)
(***************************************************************************)
\* C25: whatever the provider answers, the search sends at most 10
\* requests, each asks for between 1 and 20 results, the search returns,
\* and the list it returns has at most max_results places.
C25_SearchBounded ==
    /\ [](/\ requests_sent <= 10
          /\ (requests_sent > 0 => max_result_count \in 1..20)
          /\ (sr_pc = "returned" => Len(sr_returned) <= max_results))
    /\ <>(sr_pc = "returned")

\* C25 witness: a search with a max_results above 20 sent its tenth
\* request, had then received more places than it may return, and returned
\* max_results of them.
C25_Witness ==
    /\ sr_pc = "returned"
    /\ max_results > 20
    /\ requests_sent = 10
    /\ Len(sr_all_places) > max_results
    /\ Len(sr_returned) = max_results

(***************************************************************************)
(* The itinerary of a day and the clusters (checked under SpecPlan).       *)
(***************************************************************************)
\* get_cluster_for_place of the test: the position of the first group of
\* processed_data that holds a place of this name, 0 when there is none.
ClusterOfPlace(place_name, processed) ==
    LET holding == {g \in 1..Len(processed) :
                       \E i \in 1..Len(processed[g].value) :
                           processed[g].value[i].name = place_name}
    IN  IF holding = {} THEN 0
        ELSE CHOOSE g \in holding : \A h \in holding : g <= h

\* plan_per_day.get("itinerary", [])
ItineraryOf(plan_per_day) ==
    IF DictHas(plan_per_day, "itinerary") THEN DictGet(plan_per_day, "itinerary") ELSE <<>>

\* C21: in a plan returned with clustering active, the first place of every
\* day's itinerary is found in processed_data, and every other place of the
\* itinerary that is found there is in the cluster of the first one.
C21_OneClusterPerDay ==
    (gp_response.kind = "plan" /\ should_use_clustering(gp_req)) =>
        \A d \in 1..Len(gp_response.travel_plan) :
            LET itinerary == ItineraryOf(gp_response.travel_plan[d].value)
                processed == gp_response.processed_data
            IN  itinerary # <<>> =>
                    /\ ClusterOfPlace(itinerary[1], processed) # 0
                    /\ \A k \in 2..Len(itinerary) :
                          ClusterOfPlace(itinerary[k], processed) # 0 =>
                              ClusterOfPlace(itinerary[k], processed)
                                  = ClusterOfPlace(itinerary[1], processed)

(***************************************************************************)
(* Two calls of cluster_places_by_location on the same mapping.  KMeans is *)
(* built inside the call with random_state = 42: the labels it gives to    *)
(* given samples and n_clusters are not known, but they are the same every *)
(* time, so the first run on some samples fixes them for the later runs.   *)
(***************************************************************************)
\* Step 3: coordinates.append([lat, lng])
coordinates_of(place_seq) ==
    [i \in 1..Len(place_seq) |->
        <<place_seq[i].location.latitude, place_seq[i].location.longitude>>]

\* KMeans without random_state: every run draws its labels anew.
fit_predict_unseeded(fit, coordinates, k) == KMeansLabels(Len(coordinates), k)

\* KMeans(n_clusters = k, init = 'k-means++', n_init = 10, random_state = 42)
\* .fit_predict(coordinates): the labels of the earlier run on the same
\* samples and k when there is one, any labels otherwise.
fit_predict(fit, coordinates, k) ==
    LET earlier == {i \in 1..Len(fit) :
                       fit[i].coordinates = coordinates /\ fit[i].n_clusters = k}
    IN  IF earlier = {} THEN KMeansLabels(Len(coordinates), k)
        ELSE {fit[i].labels : i \in earlier}

\* The same mapping and the same number_of_days are given to two calls.
InitTwice ==
    /\ InitDb
    /\ InitPlanIdle
    /\ InitSearchIdle
    /\ travel_plans = <<>>
    /\ lk_pc = "idle"
    /\ lk_plan = 0
    /\ lk_original = 0
    /\ lk_stack = <<>>
    /\ update_plans = <<>>
    /\ link_calls = 0
    /\ rs_pc = "idle"
    /\ rs_name = <<>>
    /\ rs_candidates = <<>>
    /\ rs_match = None
    /\ upsert_log = <<>>
    /\ sessions = <<>>
    /\ \E flat \in SeqsUpTo(SamplePlaces, MaxPlaces) :
          \E lens \in ListLengths(Len(flat)) : cl_results = SplitLists(flat, lens)
    /\ number_of_days = 1
    /\ cl_pc = "input"
    /\ places_list = <<>>
    /\ clustered_results = <<>>
    /\ kmeans_ran = FALSE
    /\ seeded_fit = <<>>
    /\ \E days \in 1..MaxDays :
          tw_calls = <<[pc |-> "input", number_of_days |-> days,
                        clustered_results |-> <<>>],
                       [pc |-> "input", number_of_days |-> days,
                        clustered_results |-> <<>>]>>

\* Call c of cluster_places_by_location(cl_results, number_of_days), from
\* its first line to its return; the second call starts after the first.
ClusterCall(c) ==
    /\ tw_calls[c].pc = "input"
    /\ c > 1 => tw_calls[c - 1].pc = "done"
    /\ LET unique_list == dedup_places_list(cl_results)
           days == tw_calls[c].number_of_days
           coordinates == coordinates_of(unique_list)
       IN  IF Len(unique_list) = 0
           THEN /\ tw_calls' = [tw_calls EXCEPT ![c].pc = "done",
                                                ![c].clustered_results = <<>>]
                /\ UNCHANGED seeded_fit
           ELSE IF is_trivial(Len(unique_list), days)
           THEN /\ tw_calls' = [tw_calls EXCEPT
                                   ![c].pc = "done",
                                   ![c].clustered_results = trivial_clusters(unique_list)]
                /\ UNCHANGED seeded_fit
           ELSE \E cluster_labels \in fit_predict(seeded_fit, coordinates, days) :
                  /\ tw_calls' = [tw_calls EXCEPT
                                     ![c].pc = "done",
                                     ![c].clustered_results =
                                         organize_by_cluster(unique_list, cluster_labels, days)]
                  /\ seeded_fit' = Append(seeded_fit,
                                          [coordinates |-> coordinates,
                                           n_clusters |-> days,
                                           labels |-> cluster_labels])
    /\ UNCHANGED cl_vars

NextTwice ==
    \/ \E c \in {1, 2} :
          ClusterCall(c) /\ UNCHANGED <<db_vars, gp_vars, sr_vars, upsert_log, sessions,
                                        up_vars, rs_vars>>

\* Two calls on the same mapping, one after the other.
SpecTwice == InitTwice /\ [][NextTwice]_vars

MaxCandidates == 2    \* candidates handed to one resolve

\* Lower case of the words that occur in the names.
lower(word) ==
    CASE word = "Cafe" -> "cafe"
      [] word = "Roma" -> "roma"
      [] word = "Bar" -> "bar"
      [] word = "Unknown" -> "unknown"
      [] OTHER -> word

\* The name in lower case without the placeholder word.
RECURSIVE normalised(_)
normalised(words) ==
    IF words = <<>> THEN <<>>
    ELSE IF lower(Head(words)) = "unknown" THEN normalised(Tail(words))
         ELSE <<lower(Head(words))>> \o normalised(Tail(words))

\* Whether the words of x occur in y next to each other and in this order.
is_substring(x, y) ==
    \E start \in 1..(Len(y) - Len(x) + 1) : SubSeq(y, start, start + Len(x) - 1) = x

\* 0.8 if either name is a substring of the other, 0.6 if a word of the
\* query name is in the candidate name, else 0.3.
name_score(query_name, candidate_name) ==
    LET q == normalised(query_name)
        c == normalised(candidate_name)
    IN  IF is_substring(q, c) \/ is_substring(c, q) THEN 8000
        ELSE IF \E i \in 1..Len(q) : \E j \in 1..Len(c) : q[i] = c[j] THEN 6000
        ELSE 3000

\* max(0, 1 - metres / 100); 0 for a candidate without coordinates.
distance_score(metres) ==
    IF metres = None THEN 0
    ELSE IF 10000 - 100 * metres[1] < 0 THEN 0 ELSE 10000 - 100 * metres[1]

\* 0.7 * name_score + 0.3 * distance_score
total_score(query_name, candidate) ==
    (7 * name_score(query_name, candidate.name) + 3 * distance_score(candidate.metres)) \div 10

\* A resolver that accepts its best candidate whatever the score.
is_accepted_always(score) == TRUE

\* total_score > 0.4
is_accepted(score) == score > 4000

\* resolve: the match of the first candidate with the highest total_score
\* when it is accepted, None otherwise.
resolve(query_name, candidates) ==
    IF candidates = <<>> THEN None
    ELSE LET pos == CHOOSE i \in 1..Len(candidates) :
                        /\ \A j \in 1..Len(candidates) :
                              total_score(query_name, candidates[j])
                                  <= total_score(query_name, candidates[i])
                        /\ \A j \in 1..(i - 1) :
                              total_score(query_name, candidates[j])
                                  < total_score(query_name, candidates[i])
             best == candidates[pos]
         IN  IF is_accepted(total_score(query_name, best))
             THEN Some([id |-> best.id,
                        match_score |-> total_score(query_name, best)])
             ELSE None

\* Names of places to resolve and the businesses of the directory.
QueryNames == {<<"cafe", "roma">>, <<"Unknown", "Roma">>, <<"Museum">>}

Candidates ==
    {[id |-> <<candidate_name, metres>>, name |-> candidate_name, metres |-> metres] :
        candidate_name \in {<<"Cafe", "Roma">>, <<"Roma", "Bar">>, <<"Bar">>},
        metres \in {Some(0), Some(36), Some(37), Some(100), Some(250), None}}

InitResolve ==
    /\ InitDb
    /\ InitClusterIdle
    /\ InitPlanIdle
    /\ InitSearchIdle
    /\ travel_plans = <<>>
    /\ lk_pc = "idle"
    /\ lk_plan = 0
    /\ lk_original = 0
    /\ lk_stack = <<>>
    /\ update_plans = <<>>
    /\ link_calls = 0
    /\ seeded_fit = <<>>
    /\ tw_calls = <<>>
    /\ upsert_log = <<>>
    /\ sessions = <<>>
    /\ rs_pc = "input"
    /\ rs_name \in QueryNames
    /\ rs_candidates \in SeqsUpTo(Candidates, MaxCandidates)
    /\ rs_match = None

\* One call of resolve.
Resolve ==
    /\ rs_pc = "input"
    /\ rs_match' = resolve(rs_name, rs_candidates)
    /\ rs_pc' = "done"
    /\ UNCHANGED <<rs_name, rs_candidates>>

NextResolve ==
    \/ Resolve /\ UNCHANGED <<cl_vars, db_vars, gp_vars, sr_vars, upsert_log, sessions,
                              up_vars, tw_vars>>

SpecResolve == InitResolve /\ [][NextResolve]_vars

\* The total scores of the candidates of the call.
CandidateScores ==
    {total_score(rs_name, rs_candidates[i]) : i \in 1..Len(rs_candidates)}

\* C24: every total_score lies between 0 and 1; resolve returns a match
\* exactly when the highest total_score is above 0.4, the match is a
\* candidate with that highest score, and no match has a score of 0.4 or
\* less.
C24_ResolveAcceptance ==
    /\ \A score \in CandidateScores : score >= 0 /\ score <= 10000
    /\ rs_pc = "done" =>
          /\ rs_match # None <=> (\E score \in CandidateScores : score > 4000)
          /\ rs_match # None =>
                /\ rs_match[1].match_score > 4000
                /\ \A score \in CandidateScores : score <= rs_match[1].match_score
                /\ \E i \in 1..Len(rs_candidates) :
                      /\ rs_candidates[i].id = rs_match[1].id
                      /\ total_score(rs_name, rs_candidates[i]) = rs_match[1].match_score

\* C24 witness: of two candidates, the first just below the threshold (no
\* word in common, 37 metres away) and the second just above it (36
\* metres), the second was returned.
C24_Witness ==
    /\ rs_pc = "done"
    /\ rs_match # None
    /\ Len(rs_candidates) = 2
    /\ total_score(rs_name, rs_candidates[1]) = 3990
    /\ total_score(rs_name, rs_candidates[2]) = 4020
    /\ rs_match[1].id = rs_candidates[2].id

====
